---- MODULE Spec2Model ----
(***************************************************************************)
(* Amanzi: the State/Evaluator dependency graph (src/state) and the        *)
(* strongly coupled multi-process coupler MPCStrong (src/pks/mpc_pk).      *)
(*                                                                         *)
(* Three specifications share the module:                                  *)
(*   Spec       the evaluator DAG of state_evaluators_dag_double.cc        *)
(*   SpecState  the data management of State (require / owner-checked      *)
(*              access)                                                    *)
(*   SpecMPC    the composite PK MPCStrong over a list of sub-PKs          *)
(***************************************************************************)
EXTENDS Integers, Sequences, FiniteSets, TLC

VARIABLES
  data_,            \* State::data_   : key -> (tag -> Record)
  derivs_,          \* State::derivs_ : keytag -> (wrt keytag -> Record)
  requests_,        \* Evaluator::requests_ of every evaluator
  deriv_requests_,  \* Evaluator::deriv_requests_ of every evaluator
  evals,            \* number of Evaluate_ calls per evaluator in the last call
  dirty,            \* secondaries with a primary changed since their last Evaluate_
  served,           \* requests answered since the last change of a primary below them
  nChanges,         \* number of primary changes made so far
  nCalls,           \* number of evaluator calls made so far
  lastCall,         \* the last call made on an evaluator and what it returned
  access,           \* the last access made to State and what it returned
  sub_pks_,         \* MPC_PK::sub_pks_ : the sub-PKs of the composite, in order
  dt_,              \* MPCStrong::dt_, in tenths of a time unit
  ret,              \* the last call made on the composite and what it returned
  time_stepper_,    \* MPCStrong::time_stepper_ : the implicit time integrator
  driver,           \* the time-stepping loop that drives the composite
  sw,               \* the shallow-water PK: nodal depths, iters_, last step
  tensor,           \* EvaluatorIndependentTensorFunction and its factory in State
  life,             \* State's evaluators, their shapes, and how far Setup got
  pk_tree_,         \* a tree of PKs under a top-level MPCStrong, and its calls
  vis               \* VisualizationDomainSet on every process of the run

vars == <<data_, derivs_, requests_, deriv_requests_, evals, dirty, served,
          nChanges, nCalls, lastCall, access, sub_pks_, dt_, ret,
          time_stepper_, driver, sw, tensor, life, pk_tree_, vis>>

\* The evaluators' bookkeeping and the composite PK: what an access to the
\* data of State leaves alone.
evaluatorVars ==
  <<requests_, deriv_requests_, evals, dirty, served, nChanges, nCalls, lastCall>>

mpcVars == <<sub_pks_, dt_, ret>>

\* The tensor evaluator, the evaluators State sets up, the tree of PKs and
\* the visualization.
setupVars == <<tensor, life, pk_tree_, vis>>

\* The time integrator, the time-stepping loop, the shallow-water PK and
\* the setup of State.
pkVars == <<time_stepper_, driver, sw, tensor, life, pk_tree_, vis>>

(***************************************************************************)
(* Bounds of the model.                                                    *)
(***************************************************************************)
MaxChanges == 1     \* primary changes per behaviour
MaxCalls == 3       \* Update / UpdateDerivative / Get calls per behaviour
MaxPKs == 3         \* sub-PKs of a composite
MaxSteps == 3       \* AdvanceStep calls on the shallow-water PK per behaviour
MaxNodes == 5       \* PKs in a tree of PKs
MaxProcs == 2       \* processes of a run

(***************************************************************************)
(* Keys and tags.                                                          *)
(***************************************************************************)
\* Keys::getKeyTag: a key with the default tag is the key itself.
getKeyTag(key, tag) == IF tag = "" THEN key ELSE key \o ":" \o tag

\* Keys::hasKey on a map.
hasKey(map, key) == key \in DOMAIN map

\* A Record: one datum with its owner and initialization flag.
Record(owner, initialized, value) ==
  [owner |-> owner, initialized |-> initialized, value |-> value]

\* A Get that hands back a value-initialized T, not the datum of the record.
Get_ValueInitialized(S, fieldname) == 0

\* State::Get<double>(fieldname): data_.at(fieldname)->Get<T>() on tag "".
Get(S, fieldname) == S.data[fieldname][""].value

\* State::GetDerivative<double>(key, tag, wrt_key, wrt_tag).
GetDerivative(S, key, tag, wrt_key, wrt_tag) ==
  S.derivs[getKeyTag(key, tag)][getKeyTag(wrt_key, wrt_tag)].value

\* RecordSet::HasRecord(tag).
HasRecord(rs, tag) == tag \in DOMAIN rs

\* State::HasData(key, tag).
HasData(S, key, tag) ==
  IF hasKey(S.data, key) THEN HasRecord(S.data[key], tag) ELSE FALSE

\* State::HasDerivative(key, tag, wrt_key, wrt_tag).
HasDerivative(S, key, tag, wrt_key, wrt_tag) ==
  LET keytag == getKeyTag(key, tag) IN
  IF hasKey(S.derivs, keytag)
    THEN HasRecord(S.derivs[keytag], getKeyTag(wrt_key, wrt_tag))
    ELSE FALSE

(***************************************************************************)
(* The evaluators of the test: A -> {B,C,E,H}, C -> {D,G}, E -> {D,F},     *)
(* H -> F, D -> G, F -> G; B and G are primary.                            *)
(***************************************************************************)
Primaries == {"fb", "fg"}
Secondaries == {"fa", "fc", "fd", "fe", "ff", "fh"}
Fields == Primaries \cup Secondaries

\* A's constructor forgetting to declare its dependency on B.
dependencies_WithoutB ==
  [fa |-> <<"fc", "fe", "fh">>,
   fc |-> <<"fd", "fg">>,
   fd |-> <<"fg">>,
   fe |-> <<"fd", "ff">>,
   ff |-> <<"fg">>,
   fh |-> <<"ff">>,
   fb |-> <<>>,
   fg |-> <<>>]

\* dependencies_ as filled by the evaluators' constructors (keys; all tags "").
dependencies_ ==
  [fa |-> <<"fb", "fc", "fe", "fh">>,
   fc |-> <<"fd", "fg">>,
   fd |-> <<"fg">>,
   fe |-> <<"fd", "ff">>,
   ff |-> <<"fg">>,
   fh |-> <<"ff">>,
   fb |-> <<>>,
   fg |-> <<>>]

\* A slip in A's formula: the last product written as a sum.
AEvaluator_Evaluate_SumSlip(S) ==
  2 * Get(S, "fb") + Get(S, "fc") * Get(S, "fe") + Get(S, "fh")

AEvaluator_Evaluate(S) ==
  2 * Get(S, "fb") + Get(S, "fc") * Get(S, "fe") * Get(S, "fh")

CEvaluator_Evaluate(S) == 2 * Get(S, "fd") + Get(S, "fg")

DEvaluator_Evaluate(S) == 2 * Get(S, "fg")

EEvaluator_Evaluate(S) == Get(S, "fd") * Get(S, "ff")

FEvaluator_Evaluate(S) == 2 * Get(S, "fg")

HEvaluator_Evaluate(S) == 2 * Get(S, "ff")

\* Virtual dispatch of Evaluate_ on the evaluator registered for key.
Evaluate_(S, key) ==
  CASE key = "fa" -> AEvaluator_Evaluate(S)
    [] key = "fc" -> CEvaluator_Evaluate(S)
    [] key = "fd" -> DEvaluator_Evaluate(S)
    [] key = "fe" -> EEvaluator_Evaluate(S)
    [] key = "ff" -> FEvaluator_Evaluate(S)
    [] key = "fh" -> HEvaluator_Evaluate(S)

\* An A whose routine has no branch for its dependency B.
AEvaluator_EvaluatePartialDerivative_NoB(S, wrt_key, tmp) ==
  CASE wrt_key = "fc" -> Get(S, "fe") * Get(S, "fh")
    [] wrt_key = "fe" -> Get(S, "fc") * Get(S, "fh")
    [] wrt_key = "fh" -> Get(S, "fc") * Get(S, "fe")
    [] OTHER -> tmp

\* A copy-and-paste slip in dA/dH: fc * fh instead of fc * fe.
AEvaluator_EvaluatePartialDerivative_PasteSlip(S, wrt_key, tmp) ==
  CASE wrt_key = "fb" -> 2
    [] wrt_key = "fc" -> Get(S, "fe") * Get(S, "fh")
    [] wrt_key = "fe" -> Get(S, "fc") * Get(S, "fh")
    [] wrt_key = "fh" -> Get(S, "fc") * Get(S, "fh")
    [] OTHER -> tmp

\* EvaluatePartialDerivative_ writes results[0] only for its own dependencies;
\* tmp stands for the value results[0] held before the call.
AEvaluator_EvaluatePartialDerivative(S, wrt_key, tmp) ==
  CASE wrt_key = "fb" -> 2
    [] wrt_key = "fc" -> Get(S, "fe") * Get(S, "fh")
    [] wrt_key = "fe" -> Get(S, "fc") * Get(S, "fh")
    [] wrt_key = "fh" -> Get(S, "fc") * Get(S, "fe")
    [] OTHER -> tmp

CEvaluator_EvaluatePartialDerivative(S, wrt_key, tmp) ==
  CASE wrt_key = "fd" -> 2
    [] wrt_key = "fg" -> 1
    [] OTHER -> tmp

DEvaluator_EvaluatePartialDerivative(S, wrt_key, tmp) ==
  IF wrt_key = "fg" THEN 2 ELSE tmp

EEvaluator_EvaluatePartialDerivative(S, wrt_key, tmp) ==
  CASE wrt_key = "fd" -> Get(S, "ff")
    [] wrt_key = "ff" -> Get(S, "fd")
    [] OTHER -> tmp

FEvaluator_EvaluatePartialDerivative(S, wrt_key, tmp) ==
  IF wrt_key = "fg" THEN 2 ELSE tmp

HEvaluator_EvaluatePartialDerivative(S, wrt_key, tmp) ==
  IF wrt_key = "ff" THEN 2 ELSE tmp

EvaluatePartialDerivative_(S, key, wrt_key, tmp) ==
  CASE key = "fa" -> AEvaluator_EvaluatePartialDerivative(S, wrt_key, tmp)
    [] key = "fc" -> CEvaluator_EvaluatePartialDerivative(S, wrt_key, tmp)
    [] key = "fd" -> DEvaluator_EvaluatePartialDerivative(S, wrt_key, tmp)
    [] key = "fe" -> EEvaluator_EvaluatePartialDerivative(S, wrt_key, tmp)
    [] key = "ff" -> FEvaluator_EvaluatePartialDerivative(S, wrt_key, tmp)
    [] key = "fh" -> HEvaluator_EvaluatePartialDerivative(S, wrt_key, tmp)

(***************************************************************************)
(* The Update / UpdateDerivative protocol of the evaluators.  S is the     *)
(* State together with the evaluators' request sets:                       *)
(*   [data, derivs, req, dreq, evals].                                     *)
(***************************************************************************)
RECURSIVE IsDependency(_, _)
\* Evaluator::IsDependency: wrt_key is a dependency, directly or transitively.
IsDependency(key, wrt_key) ==
  \E i \in 1..Len(dependencies_[key]) :
     \/ dependencies_[key][i] = wrt_key
     \/ IsDependency(dependencies_[key][i], wrt_key)

\* Evaluator::IsDifferentiableWRT: a primary with respect to itself, a
\* secondary with respect to whatever it depends on.
IsDifferentiableWRT(key, wrt_key) ==
  IF key \in Primaries THEN key = wrt_key ELSE IsDependency(key, wrt_key)

\* The request key an evaluator uses when it asks for its own value on
\* behalf of one of its derivatives.
DerivativeRequest(key, wrt_key) ==
  "d" \o getKeyTag(key, "") \o "_d" \o getKeyTag(wrt_key, "")

\* A primary that reports changed on every request.
Primary_Update_AlwaysChanged(S, key, request) ==
  [S |-> [S EXCEPT !.req[key] = @ \cup {request}], changed |-> TRUE]

\* EvaluatorPrimary::Update: changed for a requester that has not asked since
\* the last SetChanged.
Primary_Update(S, key, request) ==
  IF request \in S.req[key]
    THEN [S |-> S, changed |-> FALSE]
    ELSE [S |-> [S EXCEPT !.req[key] = @ \cup {request}], changed |-> TRUE]

\* A primary that reports its derivative changed on every request.
Primary_UpdateDerivative_AlwaysChanged(S, key, requestor, wrt_key) ==
  [S |-> [S EXCEPT !.dreq[key] = @ \cup {<<wrt_key, requestor>>}],
   changed |-> TRUE]

\* EvaluatorPrimary::UpdateDerivative: the same bookkeeping on deriv_requests_.
Primary_UpdateDerivative(S, key, requestor, wrt_key) ==
  IF <<wrt_key, requestor>> \in S.dreq[key]
    THEN [S |-> S, changed |-> FALSE]
    ELSE [S |-> [S EXCEPT !.dreq[key] = @ \cup {<<wrt_key, requestor>>}],
          changed |-> TRUE]

\* EvaluatorPrimary::SetChanged: forget every request served so far.
Primary_SetChanged(S, key) ==
  [S EXCEPT !.req[key] = {}, !.dreq[key] = {}]

\* EvaluatorSecondaryMonotype::Update_: Evaluate_ into the evaluator's own
\* record, written under the evaluator's ownership.
Update_(S, key) ==
  [S EXCEPT !.data[key][""].value = Evaluate_(S, key),
            !.evals[key] = @ + 1]

RECURSIVE ChainRule(_, _, _, _, _)
\* The loop of UpdateDerivative_ over dependencies_[i..], result accumulated.
ChainRule(S, key, wrt_key, i, result) ==
  IF i > Len(dependencies_[key]) THEN result
  ELSE LET dep == dependencies_[key][i]
           term == IF dep = wrt_key
                     THEN EvaluatePartialDerivative_(S, key, wrt_key, 0)
                   ELSE IF IsDifferentiableWRT(dep, wrt_key)
                     THEN GetDerivative(S, dep, "", wrt_key, "")
                          * EvaluatePartialDerivative_(S, key, dep, 0)
                   ELSE 0
       IN ChainRule(S, key, wrt_key, i + 1, result + term)

\* An UpdateDerivative_ that adds to what the derivative record holds.
UpdateDerivative__Accumulates(S, key, wrt_key) ==
  IF HasDerivative(S, key, "", wrt_key, "")
    THEN [S EXCEPT !.derivs[getKeyTag(key, "")][getKeyTag(wrt_key, "")].value =
                     @ + ChainRule(S, key, wrt_key, 1, 0)]
    ELSE S

\* EvaluatorSecondaryMonotype::UpdateDerivative_: the chain rule over the
\* dependencies, stored in the derivative record of (key, wrt_key); where
\* State holds no such record the derivative stays absent.
UpdateDerivative_(S, key, wrt_key) ==
  IF HasDerivative(S, key, "", wrt_key, "")
    THEN [S EXCEPT !.derivs[getKeyTag(key, "")][getKeyTag(wrt_key, "")].value =
                     ChainRule(S, key, wrt_key, 1, 0)]
    ELSE S

RECURSIVE Update(_, _, _), UpdateDependencies(_, _, _, _)
\* update |= S.GetEvaluator(dep).Update(S, my_key) over dependencies_[i..].
\* Each call returns (r is evaluated) before the loop goes on.
UpdateDependencies(S, key, i, update) ==
  IF i > Len(dependencies_[key]) THEN [S |-> S, changed |-> update]
  ELSE LET r == Update(S, dependencies_[key][i], getKeyTag(key, ""))
       IN IF r.changed
            THEN UpdateDependencies(r.S, key, i + 1, TRUE)
            ELSE UpdateDependencies(r.S, key, i + 1, update)

\* An Update that recomputes once for every new requester.
Update_PerRequester(S, key, request) ==
  IF key \in Primaries THEN Primary_Update(S, key, request)
  ELSE LET d == UpdateDependencies(S, key, 1, FALSE)
       IN IF d.changed
            THEN [S |-> [Update_(d.S, key) EXCEPT !.req[key] = {request}],
                  changed |-> TRUE]
          ELSE IF request \notin d.S.req[key]
            THEN [S |-> [Update_(d.S, key) EXCEPT !.req[key] = @ \cup {request}],
                  changed |-> TRUE]
          ELSE [S |-> d.S, changed |-> FALSE]

\* An Update that reports changed only when it has recomputed the value.
Update_AlteredOnly(S, key, request) ==
  IF key \in Primaries THEN Primary_Update(S, key, request)
  ELSE LET d == UpdateDependencies(S, key, 1, FALSE)
       IN IF d.changed
            THEN [S |-> [Update_(d.S, key) EXCEPT !.req[key] = {request}],
                  changed |-> TRUE]
          ELSE [S |-> [d.S EXCEPT !.req[key] = @ \cup {request}],
                changed |-> FALSE]

\* Evaluator::Update(S, request): dependencies first; recompute when one of
\* them changed, otherwise only serve the request.
Update(S, key, request) ==
  IF key \in Primaries THEN Primary_Update(S, key, request)
  ELSE LET d == UpdateDependencies(S, key, 1, FALSE)
       IN IF d.changed
            THEN [S |-> [Update_(d.S, key) EXCEPT !.req[key] = {request}],
                  changed |-> TRUE]
          ELSE IF request \notin d.S.req[key]
            THEN [S |-> [d.S EXCEPT !.req[key] = @ \cup {request}],
                  changed |-> TRUE]
          ELSE [S |-> d.S, changed |-> FALSE]

RECURSIVE UpdateDerivative(_, _, _, _), UpdateDependencyDerivatives(_, _, _, _, _),
          UpdateDerivativeAfterUpdate(_, _, _, _, _)
\* update |= dep.UpdateDerivative(S, my_request, wrt) over the dependencies
\* that are differentiable with respect to wrt.
UpdateDependencyDerivatives(S, key, wrt_key, i, update) ==
  IF i > Len(dependencies_[key]) THEN [S |-> S, changed |-> update]
  ELSE LET dep == dependencies_[key][i]
       IN IF IsDifferentiableWRT(dep, wrt_key)
            THEN LET r == UpdateDerivative(S, dep,
                                           DerivativeRequest(key, wrt_key), wrt_key)
                 IN IF r.changed
                      THEN UpdateDependencyDerivatives(r.S, key, wrt_key, i + 1, TRUE)
                      ELSE UpdateDependencyDerivatives(r.S, key, wrt_key, i + 1, update)
            ELSE UpdateDependencyDerivatives(S, key, wrt_key, i + 1, update)

\* The part of UpdateDerivative that follows the evaluator's own Update:
\* the dependencies' derivatives, then the evaluator's own derivative.
UpdateDerivativeAfterUpdate(S, key, requestor, wrt_key, update) ==
  LET d == UpdateDependencyDerivatives(S, key, wrt_key, 1, update)
      request == <<wrt_key, requestor>>
  IN IF d.changed
       THEN [S |-> [UpdateDerivative_(d.S, key, wrt_key) EXCEPT
                      !.dreq[key] = {q \in @ : q[1] # wrt_key} \cup {request}],
             changed |-> TRUE]
     ELSE IF request \notin d.S.dreq[key]
       THEN [S |-> [d.S EXCEPT !.dreq[key] = @ \cup {request}],
             changed |-> TRUE]
     ELSE [S |-> d.S, changed |-> FALSE]

\* An UpdateDerivative that leaves the values as they are.
UpdateDerivative_NoUpdate(S, key, requestor, wrt_key) ==
  IF key \in Primaries THEN Primary_UpdateDerivative(S, key, requestor, wrt_key)
  ELSE UpdateDerivativeAfterUpdate(S, key, requestor, wrt_key, TRUE)

\* Evaluator::UpdateDerivative(S, requestor, wrt_key, wrt_tag): Update first,
\* so that the values the derivative formulas read are current.
UpdateDerivative(S, key, requestor, wrt_key) ==
  IF key \in Primaries THEN Primary_UpdateDerivative(S, key, requestor, wrt_key)
  ELSE LET u == Update(S, key, DerivativeRequest(key, wrt_key))
       IN IF u.changed
            THEN UpdateDerivativeAfterUpdate(u.S, key, requestor, wrt_key, TRUE)
            ELSE UpdateDerivativeAfterUpdate(u.S, key, requestor, wrt_key, FALSE)

(***************************************************************************)
(* Specification Spec: the fixture make_state and the calls of the test    *)
(* DAG_TWO_FIELDS, made in any order by any consumer.                      *)
(***************************************************************************)
\* Consumers that call Update from outside the graph: "main", as in the test,
\* on every secondary, and a second consumer "pk" on A and E.
Requesters == {"main", "pk"}

UpdateCalls ==
  {c \in Secondaries \X Requesters : c[2] = "main" \/ c[1] \in {"fa", "fe"}}

\* The derivatives the fixture requires of State.
DerivRequired == {<<"fa", "fb">>, <<"fa", "fg">>, <<"fe", "fg">>}

\* The requestor named in UpdateDerivative: the test passes the key itself.
DerivRequestors(key) == {key}

\* The values a primary may be given: B = 2 and G = 3 of the fixture, so that
\* a write may change a value or leave it as it is.
PrimaryValues == {2, 3}

\* The evaluator itself and everything it transitively depends on.
Closure(key) == {key} \cup {k \in Fields : IsDependency(key, k)}

NoCall ==
  [op |-> "none", key |-> "", request |-> "", wrt |-> "", changed |-> FALSE,
   preDirty |-> {}, preServed |-> FALSE, preAsked |-> FALSE, preDeriv |-> 0,
   prevOp |-> "none", prevKey |-> "", value |-> 0, hasDeriv |-> FALSE]

\* The last call before this one that was not a read: a read through
\* State::Get stands between two calls without being one of them.
PrevCall ==
  IF lastCall.op = "Get"
    THEN [op |-> lastCall.prevOp, key |-> lastCall.prevKey]
    ELSE [op |-> lastCall.op, key |-> lastCall.key]

NoAccess ==
  [op |-> "none", key |-> "", tag |-> "", deriv |-> FALSE, presented |-> FALSE,
   owner |-> "", status |-> "ok", mutable |-> FALSE, wrote |-> FALSE,
   what |-> << >>, has |-> FALSE]

NoRet ==
  [op |-> "none", status |-> "ok", flag |-> FALSE, dt |-> 0,
   fallThrough |-> FALSE, value |-> 0, args |-> << >>, results |-> << >>,
   calls |-> << >>, out |-> << >>, t_old |-> 0, t_new |-> 0]

\* No time integrator yet, no time-stepping loop, no shallow-water mesh.
NoStepper == [created |-> FALSE, t |-> 0]

NoDriver == [phase |-> "off", t |-> 0, t_end |-> 0, dt |-> 0, nfail |-> 0]

NoSW ==
  [h |-> << >>, iters_ |-> 0, t |-> 0, op |-> "none", failed |-> FALSE, dt |-> 0,
   cfl_ |-> 0, max_iters_ |-> 0, dt_min |-> 0, got |-> 0, factors |-> {}]

\* EvaluatorIndependentTensorFunction as constructed (dimension_(-1),
\* rank_(-1), num_funcs_(-1)); f is the factory of its record, which State
\* does not have before the first Require.
NoTensor ==
  [dimension_ |-> -1, rank_ |-> -1, num_funcs_ |-> -1, tensor_rank |-> 0,
   f |-> [mesh |-> FALSE, dimension |-> 0, rank |-> 0, map |-> << >>],
   ncalls |-> 0, op |-> "none"]

\* No evaluator set in State, nothing set up.
NoLife ==
  [phase |-> "off", graph |-> << >>, malformed |-> FALSE, shape |-> << >>,
   op |-> "none", status |-> "ok", passes |-> 0, key |-> "", repeated |-> FALSE,
   evaluated |-> {}]

\* No visualization of a domain set.
NoVis == << >>

\* No tree of PKs built.
NoTree == [nodes |-> << >>, log |-> << >>, phase |-> "off"]

InitPKs ==
  /\ time_stepper_ = NoStepper
  /\ driver = NoDriver
  /\ sw = NoSW
  /\ tensor = NoTensor
  /\ life = NoLife
  /\ pk_tree_ = NoTree
  /\ vis = NoVis

\* State and evaluators as make_state leaves them: every field required with
\* its own key as owner, B = 2 and G = 3 written and flagged initialized,
\* a derivative slot for every derivative required and for every secondary
\* and every primary below it.
InitDagWith(required) ==
  /\ data_ = [k \in Fields |->
               [t \in {""} |->
                 Record(k, k \in Primaries,
                        IF k = "fb" THEN 2 ELSE IF k = "fg" THEN 3 ELSE 0)]]
  /\ derivs_ = [k \in Secondaries |->
                 [w \in {q \in Primaries : IsDependency(k, q)
                                              \/ <<k, q>> \in required} |->
                   Record(k, FALSE, 0)]]
  /\ requests_ = [k \in Fields |-> {}]
  /\ deriv_requests_ = [k \in Fields |-> {}]
  /\ evals = [k \in Fields |-> 0]
  /\ dirty = Secondaries
  /\ served = {}
  /\ nChanges = 0
  /\ nCalls = 0
  /\ lastCall = NoCall
  /\ access = NoAccess
  /\ sub_pks_ = << >>
  /\ dt_ = 0
  /\ ret = NoRet
  /\ InitPKs

InitDag == InitDagWith(DerivRequired)

\* The State and request sets handed to an evaluator call.
Current ==
  [data |-> data_, derivs |-> derivs_, req |-> requests_,
   dreq |-> deriv_requests_, evals |-> [k \in Fields |-> 0]]

Commit(S) ==
  /\ data_' = S.data
  /\ derivs_' = S.derivs
  /\ requests_' = S.req
  /\ deriv_requests_' = S.dreq
  /\ evals' = S.evals

\* What State holds when the call has returned.
Stored == [data |-> data_', derivs |-> derivs_']

\* changed = eval->Update(S, request)
CallUpdate(key, request) ==
  LET r == Update(Current, key, request) IN
  /\ nCalls < MaxCalls
  /\ nCalls' = nCalls + 1
  /\ Commit(r.S)
  /\ dirty' = dirty \ Closure(key)
  /\ served' = served \cup {<<"U", key, request>>}
  /\ lastCall' = [op |-> "Update", key |-> key, request |-> request, wrt |-> "",
                  changed |-> r.changed, preDirty |-> dirty,
                  preServed |-> <<"U", key, request>> \in served,
                  preAsked |-> \E q \in served : q[1] = "U" /\ q[2] = key,
                  preDeriv |-> 0,
                  prevOp |-> PrevCall.op, prevKey |-> PrevCall.key,
                  value |-> Get(Stored, key), hasDeriv |-> FALSE]
  /\ UNCHANGED <<nChanges, access, mpcVars, pkVars>>

\* changed = eval->UpdateDerivative(S, requestor, wrt_key, ""); the caller
\* reads the derivative afterwards if State has one.
CallUpdateDerivative(key, requestor, wrt_key) ==
  LET r == UpdateDerivative(Current, key, requestor, wrt_key) IN
  /\ nCalls < MaxCalls
  /\ nCalls' = nCalls + 1
  /\ Commit(r.S)
  /\ dirty' = dirty \ Closure(key)
  /\ served' = served \cup {<<"D", key, requestor, wrt_key>>}
  /\ lastCall' = [op |-> "UpdateDerivative", key |-> key, request |-> requestor,
                  wrt |-> wrt_key, changed |-> r.changed, preDirty |-> dirty,
                  preServed |-> <<"D", key, requestor, wrt_key>> \in served,
                  preAsked |-> \E q \in served : q[1] = "D" /\ q[2] = key,
                  preDeriv |-> IF HasDerivative(Current, key, "", wrt_key, "")
                                 THEN derivs_[key][wrt_key].value ELSE 0,
                  prevOp |-> PrevCall.op, prevKey |-> PrevCall.key,
                  value |-> IF HasDerivative(Stored, key, "", wrt_key, "")
                              THEN GetDerivative(Stored, key, "", wrt_key, "")
                              ELSE 0,
                  hasDeriv |-> HasDerivative(Stored, key, "", wrt_key, "")]
  /\ UNCHANGED <<nChanges, access, mpcVars, pkVars>>

\* The bookkeeping of a primary marked changed.
MarkChanged(key, op) ==
  /\ LET S == Primary_SetChanged(Current, key) IN
       /\ requests_' = S.req
       /\ deriv_requests_' = S.dreq
  /\ dirty' = dirty \cup {k \in Secondaries : IsDependency(k, key)}
  /\ served' = {q \in served : ~IsDependency(q[2], key)}
  /\ nChanges' = nChanges + 1
  /\ lastCall' = [NoCall EXCEPT !.op = op, !.key = key]
  /\ UNCHANGED <<derivs_, evals, nCalls, access, mpcVars, pkVars>>

\* The owner writes a primary and marks it changed:
\* S.GetW<double>(key, key) = value; eval->SetChanged().
SetPrimary(key, value) ==
  /\ nChanges < MaxChanges
  /\ data_' = [data_ EXCEPT ![key][""].value = value]
  /\ MarkChanged(key, "SetPrimary")

\* eval->SetChanged() with the value left as it is.
SetChanged(key) ==
  /\ nChanges < MaxChanges
  /\ UNCHANGED data_
  /\ MarkChanged(key, "SetChanged")

\* The fields the test reads through State.
ReadKeys == {"fa", "fb", "fd", "fg"}

\* v = S.Get<double>(key): a read of what the record holds.  The read leaves
\* State and the evaluators as they are, so that no later call can tell it
\* happened: it is taken as the last call of a behaviour.
GetField(key) ==
  /\ nCalls < MaxCalls
  /\ nCalls' = MaxCalls
  /\ lastCall' = [NoCall EXCEPT !.op = "Get", !.key = key, !.preDirty = dirty,
                                !.prevOp = PrevCall.op, !.prevKey = PrevCall.key,
                                !.value = Get(Current, key)]
  /\ evals' = [k \in Fields |-> 0]
  /\ UNCHANGED <<data_, derivs_, requests_, deriv_requests_, dirty, served,
                 nChanges, access, mpcVars, pkVars>>

Next ==
  \/ \E c \in UpdateCalls : CallUpdate(c[1], c[2])
  \/ \E key \in ReadKeys : GetField(key)
  \/ \E kw \in DerivRequired : \E requestor \in DerivRequestors(kw[1]) :
        CallUpdateDerivative(kw[1], requestor, kw[2])
  \/ \E key \in Primaries, value \in PrimaryValues : SetPrimary(key, value)
  \/ \E key \in Primaries : SetChanged(key)

Spec == InitDag /\ [][Next]_vars

(***************************************************************************)
(* Properties of the evaluator graph (specification Spec).                 *)
(***************************************************************************)
RECURSIVE TotalDerivative(_, _, _), PathSum(_, _, _, _)
\* The chain rule summed over every dependency path from key to wrt_key,
\* evaluated on the values State holds now (no cached derivative is read).
TotalDerivative(S, key, wrt_key) ==
  IF key = wrt_key THEN 1
  ELSE IF key \in Primaries THEN 0
  ELSE PathSum(S, key, wrt_key, 1)

PathSum(S, key, wrt_key, i) ==
  IF i > Len(dependencies_[key]) THEN 0
  ELSE EvaluatePartialDerivative_(S, key, dependencies_[key][i], 0)
         * TotalDerivative(S, dependencies_[key][i], wrt_key)
       + PathSum(S, key, wrt_key, i + 1)

RECURSIVE NumPaths(_, _)
\* The number of dependency paths from root to key.
NumPaths(root, key) ==
  IF root = key THEN 1
  ELSE LET deps == dependencies_[root]
           RECURSIVE Sum(_)
           Sum(i) == IF i > Len(deps) THEN 0
                     ELSE NumPaths(deps[i], key) + Sum(i + 1)
       IN Sum(1)

\* The secondaries reached from root by more than one path.
SharedNodes(root) == {k \in Secondaries : NumPaths(root, k) > 1}

TotalEvals == evals.fa + evals.fc + evals.fd + evals.fe + evals.ff + evals.fh

\* C1: after Update(root, requester) on a secondary, the root and every
\* secondary it transitively depends on hold their defining function applied
\* to the current values of their dependencies; the first Update(A) of the
\* test (B = 2, G = 3) returns changed and leaves A = 6484 and D = 6.
C1_UpdateComputesValues ==
  lastCall.op = "Update" =>
    /\ \A k \in Closure(lastCall.key) \cap Secondaries :
          data_[k][""].value = Evaluate_(Current, k)
    /\ (lastCall.key = "fa" /\ nCalls = 1 /\ nChanges = 0) =>
          /\ lastCall.changed
          /\ data_["fa"][""].value = 6484
          /\ data_["fd"][""].value = 6

\* C1 witness: Update(A) has recomputed A after G was changed from 3 to 2.
C1_Witness ==
  /\ lastCall.op = "Update" /\ lastCall.key = "fa" /\ lastCall.changed
  /\ nChanges = 1
  /\ data_["fg"][""].value = 2
  /\ data_["fd"][""].value = 4
  /\ data_["fa"][""].value = 2 * data_["fb"][""].value + 1280

\* C2: UpdateDerivative(X, wrt = P) stores the total derivative of X with
\* respect to P, the chain rule summed over every dependency path; with B = 2
\* and G = 3 that is dA/dB = 2, dA/dG = 8640, dE/dG = 24; a first request
\* returns changed.
C2_ChainRule ==
  lastCall.op = "UpdateDerivative" =>
    LET d == derivs_[lastCall.key][lastCall.wrt].value IN
    /\ d = TotalDerivative(Current, lastCall.key, lastCall.wrt)
    /\ (lastCall.key = "fa" /\ lastCall.wrt = "fb") => d = 2
    /\ (lastCall.key = "fa" /\ lastCall.wrt = "fg" /\ data_["fg"][""].value = 3)
          => d = 8640
    /\ (lastCall.key = "fe" /\ lastCall.wrt = "fg" /\ data_["fg"][""].value = 3)
          => d = 24
    /\ ~lastCall.preServed => lastCall.changed

\* C2 witness: dA/dG has been computed at the fixture's values.
C2_Witness ==
  /\ lastCall.op = "UpdateDerivative" /\ lastCall.key = "fa" /\ lastCall.wrt = "fg"
  /\ lastCall.changed
  /\ data_["fg"][""].value = 3
  /\ derivs_["fa"]["fg"].value = 8640

\* C3 as claimed: if no primary below X has changed since the last Update of
\* X, a subsequent Update of X reports changed = false and calls no Evaluate_.
C3_UnchangedReportsFalse ==
  (lastCall.op = "Update" /\ lastCall.preAsked) =>
    /\ ~lastCall.changed
    /\ TotalEvals = 0

\* C3 as amended: if no primary below X has changed since the last Update of
\* X, a subsequent Update of X calls no Evaluate_, whoever asks; it reports
\* changed = false to a requester that has itself asked since that change.
C3_UnchangedServedReportsFalse ==
  lastCall.op = "Update" =>
    /\ lastCall.key \notin lastCall.preDirty => TotalEvals = 0
    /\ lastCall.preServed => (~lastCall.changed /\ TotalEvals = 0)

\* C3 witness: the same requester has asked twice with no change in between.
C3_Witness ==
  /\ lastCall.op = "Update" /\ lastCall.preServed
  /\ ~lastCall.changed /\ TotalEvals = 0

\* C4 as claimed: an Update(root) made after a primary change calls the
\* Evaluate_ of every node shared between several paths exactly once.
C4_SharedEvaluatedExactlyOnce ==
  (lastCall.op = "Update" /\ lastCall.prevOp \in {"SetPrimary", "SetChanged"}) =>
    \A k \in SharedNodes(lastCall.key) : evals[k] = 1

\* C4 as amended: an Update(root) calls the Evaluate_ of every secondary at
\* most once, never once per path, and exactly once when a primary the node
\* depends on has changed since the node was last evaluated.
C4_SharedEvaluatedOncePerCall ==
  lastCall.op = "Update" =>
    \A k \in Secondaries :
       /\ evals[k] <= 1
       /\ (k \in Closure(lastCall.key) /\ k \in lastCall.preDirty) => evals[k] = 1

\* C4 witness: Update(A) after G was changed has evaluated D and F once each.
C4_Witness ==
  /\ lastCall.op = "Update" /\ lastCall.key = "fa"
  /\ lastCall.prevOp = "SetPrimary" /\ lastCall.prevKey = "fg"
  /\ SharedNodes("fa") = {"fd", "ff"}
  /\ evals["fd"] = 1 /\ evals["ff"] = 1

C6_MarkedPrimaryForcesDerivative ==
  (/\ lastCall.op = "UpdateDerivative" /\ lastCall.key = "fa"
   /\ lastCall.prevOp = "SetChanged" /\ lastCall.prevKey = "fb") =>
    /\ lastCall.changed
    /\ (lastCall.wrt = "fg" /\ data_["fg"][""].value = 3)
          => derivs_["fa"]["fg"].value = 8640

\* C6 witness: dA/dG was 8640, B was marked changed, dA/dG was asked again.
C6_Witness ==
  /\ lastCall.op = "UpdateDerivative" /\ lastCall.key = "fa" /\ lastCall.wrt = "fg"
  /\ lastCall.prevOp = "SetChanged" /\ lastCall.prevKey = "fb"
  /\ lastCall.preDeriv = 8640
  /\ lastCall.changed
  /\ derivs_["fa"]["fg"].value = 8640

\* What key holds once every evaluator below it has been evaluated on the
\* current values of the primaries.
FreshValue(key) ==
  Get(Update([Current EXCEPT !.req = [k \in Fields |-> {}]], key, "fresh").S, key)

\* C13 as claimed: a read through State never returns stale data; when a
\* primary below key has changed since key was computed, State re-evaluates
\* the stale evaluators before Get returns.
C13_GetNeverStale ==
  (/\ lastCall.op = "Get" /\ lastCall.key \in Secondaries
   /\ requests_[lastCall.key] # {}) =>
    /\ lastCall.value = FreshValue(lastCall.key)
    /\ lastCall.key \notin dirty

\* C13 as amended: Get returns what the record holds and evaluates nothing;
\* the value is up to date when Update has been called on the evaluator, or
\* on one that depends on it, since the last change of a primary below it.
C13_GetReturnsStored ==
  lastCall.op = "Get" =>
    /\ lastCall.value = data_[lastCall.key][""].value
    /\ TotalEvals = 0
    /\ dirty = lastCall.preDirty
    /\ (lastCall.key \in Secondaries /\ lastCall.key \notin dirty) =>
          lastCall.value = FreshValue(lastCall.key)
    /\ (lastCall.key = "fb" /\ lastCall.prevOp = "none") => lastCall.value = 2

\* C13 witness: A was computed, G was changed from 3 to 2, and Get still
\* returns the A of G = 3.
C13_Witness ==
  /\ lastCall.op = "Get" /\ lastCall.key = "fa"
  /\ lastCall.prevOp = "SetPrimary" /\ lastCall.prevKey = "fg"
  /\ data_["fg"][""].value = 2
  /\ "fa" \in dirty
  /\ lastCall.value = 6484

\* C31 as claimed: when several requesters call Update on the same evaluator
\* with no primary change in between, at most one of the calls computes the
\* value, and a call returns changed = true exactly when it computed it.
C31_ChangedIffComputed ==
  lastCall.op = "Update" =>
    /\ lastCall.preAsked => evals[lastCall.key] = 0
    /\ lastCall.changed <=> evals[lastCall.key] = 1

\* C31 as amended: at most one of the calls computes the value, and a call
\* returns changed = true exactly when it computed the value or its requester
\* had not yet asked since the last primary change below the evaluator.
C31_ChangedIffComputedOrNewRequester ==
  lastCall.op = "Update" =>
    /\ lastCall.preAsked => evals[lastCall.key] = 0
    /\ evals[lastCall.key] <= 1
    /\ lastCall.changed <=> (evals[lastCall.key] = 1 \/ ~lastCall.preServed)

\* C31 witness: "pk" asks for A after "main" has; nothing is computed and
\* "pk" is told changed.
C31_Witness ==
  /\ lastCall.op = "Update" /\ lastCall.key = "fa" /\ lastCall.request = "pk"
  /\ lastCall.preAsked /\ ~lastCall.preServed
  /\ lastCall.prevOp = "Update" /\ lastCall.prevKey = "fa"
  /\ evals["fa"] = 0 /\ TotalEvals = 0
  /\ lastCall.changed

\* C32: UpdateDerivative(X, wrt) brings the values up to date before the
\* derivative formulas read them: afterwards X and every secondary below it
\* hold their functions of the current primaries and the stored derivative is
\* the chain rule at those values; with G changed from 3 to 2 and no Update
\* asked, UpdateDerivative(A, G) leaves A = 1284 and dA/dG = 2560.
C32_DerivativeUpdatesValuesFirst ==
  lastCall.op = "UpdateDerivative" =>
    /\ \A k \in Closure(lastCall.key) \cap Secondaries :
          data_[k][""].value = Evaluate_(Current, k)
    /\ lastCall.key \notin dirty
    /\ lastCall.hasDeriv =>
          lastCall.value = TotalDerivative(Current, lastCall.key, lastCall.wrt)
    /\ (/\ lastCall.key = "fa" /\ lastCall.wrt = "fg"
        /\ data_["fb"][""].value = 2 /\ data_["fg"][""].value = 2) =>
          /\ data_["fa"][""].value = 1284
          /\ data_["fd"][""].value = 4
          /\ derivs_["fa"]["fg"].value = 2560

\* C32 witness: G was changed from 3 to 2, then dA/dG was asked with no
\* Update of A before it.
C32_Witness ==
  /\ lastCall.op = "UpdateDerivative" /\ lastCall.key = "fa" /\ lastCall.wrt = "fg"
  /\ lastCall.prevOp = "SetPrimary" /\ lastCall.prevKey = "fg"
  /\ "fa" \in lastCall.preDirty
  /\ \A q \in served : q[1] = "D"
  /\ data_["fg"][""].value = 2
  /\ data_["fa"][""].value = 1284
  /\ derivs_["fa"]["fg"].value = 2560

\* State as make_state leaves it, with the primaries at the values they
\* hold now: nothing computed, nothing requested.
AsMade ==
  [data |-> [k \in Fields |->
              [t \in {""} |->
                Record(k, k \in Primaries,
                       IF k \in Primaries THEN data_[k][""].value ELSE 0)]],
   derivs |-> [k \in DOMAIN derivs_ |->
                [w \in DOMAIN derivs_[k] |-> Record(k, FALSE, 0)]],
   req |-> [k \in Fields |-> {}],
   dreq |-> [k \in Fields |-> {}],
   evals |-> [k \in Fields |-> 0]]

\* The derivative stored when UpdateDerivative(key, wrt_key) is the only
\* request ever made.
AskedAlone(key, wrt_key) ==
  GetDerivative(UpdateDerivative(AsMade, key, key, wrt_key).S, key, "", wrt_key, "")

UnrelatedRequired == {<<"fh", "fb">>}

\* UpdateDerivative(key, wrt) as called: dE/dB, of which State has no
\* record, dH/dB, of which it has one, and dA/dB of the test.
UnrelatedCalls == {<<"fe", "fb">>, <<"fh", "fb">>, <<"fa", "fb">>}

InitUnrelated == InitDagWith(DerivRequired \cup UnrelatedRequired)

NextUnrelated ==
  \/ \E c \in UnrelatedCalls : CallUpdateDerivative(c[1], c[1], c[2])
  \/ \E c \in UpdateCalls : CallUpdate(c[1], c[2])
  \/ \E key \in Primaries, value \in PrimaryValues : SetPrimary(key, value)
  \/ \E key \in Primaries : SetChanged(key)

SpecUnrelated == InitUnrelated /\ [][NextUnrelated]_vars

AssertOwnerOrDie(r, owner) == r.owner = owner

\* RecordSet::RequireRecord(tag, owner): the record is created if it is not
\* there yet; a record that is there stays as it is.
RequireRecord(rs, tag, owner) ==
  IF HasRecord(rs, tag) THEN rs ELSE rs @@ (tag :> Record(owner, FALSE, 0))

\* RecordSet::GetW<T>(tag, owner), GetPtrW<T>(tag, owner), Set(tag, owner, t):
\* the outcome of the owner-checked access to the record of tag.
RecordSet_GetW(rs, tag, owner) ==
  IF ~HasRecord(rs, tag) THEN "out_of_range"
  ELSE IF AssertOwnerOrDie(rs[tag], owner) THEN "ok"
  ELSE "ownership violation"

\* A GetRecordW that returns the record without asking for its owner.
GetRecordW_NoAssert(S, fieldname, tag, owner) ==
  IF ~hasKey(S.data, fieldname) \/ ~HasRecord(S.data[fieldname], tag)
    THEN "out_of_range"
  ELSE "ok"

\* State::GetRecordW(fieldname, tag, owner): the outcome of
\* r = data_.at(fieldname)->GetRecord(tag); r.AssertOwnerOrDie(owner).
GetRecordW(S, fieldname, tag, owner) ==
  IF ~hasKey(S.data, fieldname) \/ ~HasRecord(S.data[fieldname], tag)
    THEN "out_of_range"
  ELSE IF AssertOwnerOrDie(S.data[fieldname][tag], owner) THEN "ok"
  ELSE "ownership violation"

\* State::GetRecordSetW(fieldname): *data_.at(fieldname), no owner asked.
GetRecordSetW(S, fieldname) ==
  IF hasKey(S.data, fieldname) THEN "ok" ELSE "out_of_range"

\* A GetW that does not pass the caller's owner string on to the record set.
GetW_OwnerDropped(S, fieldname, tag, owner) ==
  IF ~hasKey(S.data, fieldname) THEN "out_of_range"
  ELSE IF ~HasRecord(S.data[fieldname], tag) THEN "out_of_range"
  ELSE RecordSet_GetW(S.data[fieldname], tag, S.data[fieldname][tag].owner)

\* State::GetW<T>(fieldname, tag, owner).
GetW(S, fieldname, tag, owner) ==
  IF ~hasKey(S.data, fieldname) THEN "out_of_range"
  ELSE RecordSet_GetW(S.data[fieldname], tag, owner)

\* State::GetPtrW<T>(fieldname, tag, owner).
GetPtrW(S, fieldname, tag, owner) ==
  IF ~hasKey(S.data, fieldname) THEN "out_of_range"
  ELSE RecordSet_GetW(S.data[fieldname], tag, owner)

\* State::Set<T>(fieldname, tag, owner, data): the outcome of the access.
Set(S, fieldname, tag, owner) ==
  IF ~hasKey(S.data, fieldname) THEN "out_of_range"
  ELSE RecordSet_GetW(S.data[fieldname], tag, owner)

\* State::GetDerivativeW<T>(key, tag, wrt_key, wrt_tag, owner).
GetDerivativeW(S, key, tag, wrt_key, wrt_tag, owner) ==
  IF ~hasKey(S.derivs, getKeyTag(key, tag)) THEN "out_of_range"
  ELSE RecordSet_GetW(S.derivs[getKeyTag(key, tag)],
                      getKeyTag(wrt_key, wrt_tag), owner)

\* State::GetDerivativePtrW<T>(key, tag, wrt_key, wrt_tag, owner).
GetDerivativePtrW(S, key, tag, wrt_key, wrt_tag, owner) ==
  IF ~hasKey(S.derivs, getKeyTag(key, tag)) THEN "out_of_range"
  ELSE RecordSet_GetW(S.derivs[getKeyTag(key, tag)],
                      getKeyTag(wrt_key, wrt_tag), owner)

\* State::GetDerivativeSet(key, tag): *derivs_.at(keytag), no owner asked.
GetDerivativeSet(S, key, tag) ==
  IF hasKey(S.derivs, getKeyTag(key, tag)) THEN "ok" ELSE "out_of_range"

\* The keys, tags and owner strings callers use.
StateKeys == {"fa", "fb"}
StateTags == {"", "next"}
Owners == {"fa", "fb"}
WriteValues == {2}

\* Require<double>(fieldname, tag, owner) as callers make it; A at the
\* default tag is required by two callers that name different owners.
RequireCalls ==
  {<<"fb", "", "fb">>, <<"fa", "", "fa">>, <<"fa", "next", "fb">>,
   <<"fa", "", "fb">>}

\* RequireDerivative<double>(key, tag, wrt_key, wrt_tag, owner).
RequireDerivativeCalls == {<<"fa", "", "fb", "", "fa">>}

\* State after construction: no data, no derivatives.
InitState ==
  /\ data_ = << >>
  /\ derivs_ = << >>
  /\ access = NoAccess
  /\ requests_ = [k \in Fields |-> {}]
  /\ deriv_requests_ = [k \in Fields |-> {}]
  /\ evals = [k \in Fields |-> 0]
  /\ dirty = {}
  /\ served = {}
  /\ nChanges = 0
  /\ nCalls = 0
  /\ lastCall = NoCall
  /\ sub_pks_ = << >>
  /\ dt_ = 0
  /\ ret = NoRet
  /\ InitPKs

\* data_ after State::Require<T>(fieldname, tag, owner) on data_ = d.
Required(d, fieldname, tag, owner) ==
  LET e == IF hasKey(d, fieldname) THEN d ELSE d @@ (fieldname :> << >>)
  IN [e EXCEPT ![fieldname] = RequireRecord(@, tag, owner)]

\* A Require that emplaces a new RecordSet whether or not the key is there.
Require_EmplaceAlways(fieldname, tag, owner) ==
  /\ data_' = [k \in DOMAIN data_ \cup {fieldname} |->
                 IF k = fieldname THEN RequireRecord(<< >>, tag, owner)
                 ELSE data_[k]]
  /\ access' = [NoAccess EXCEPT !.op = "Require", !.key = fieldname,
                                !.tag = tag, !.presented = TRUE, !.owner = owner]
  /\ UNCHANGED <<derivs_, evaluatorVars, mpcVars, pkVars>>

\* State::Require<T>(fieldname, tag, owner).
Require(fieldname, tag, owner) ==
  /\ data_' = Required(data_, fieldname, tag, owner)
  /\ access' = [NoAccess EXCEPT !.op = "Require", !.key = fieldname,
                                !.tag = tag, !.presented = TRUE, !.owner = owner]
  /\ UNCHANGED <<derivs_, evaluatorVars, mpcVars, pkVars>>

\* State::RequireDerivative<T>(key, tag, wrt_key, wrt_tag, owner).
RequireDerivative(key, tag, wrt_key, wrt_tag, owner) ==
  LET keytag == getKeyTag(key, tag) IN
  /\ derivs_' = LET d == IF hasKey(derivs_, keytag) THEN derivs_
                         ELSE derivs_ @@ (keytag :> << >>)
                IN [d EXCEPT ![keytag] =
                      RequireRecord(@, getKeyTag(wrt_key, wrt_tag), owner)]
  /\ access' = [NoAccess EXCEPT !.op = "RequireDerivative", !.key = keytag,
                                !.tag = getKeyTag(wrt_key, wrt_tag),
                                !.deriv = TRUE, !.presented = TRUE,
                                !.owner = owner]
  /\ UNCHANGED <<data_, evaluatorVars, mpcVars, pkVars>>

\* what() of the exception a failed access throws, as the parts of its
\* message: std::out_of_range thrown by unordered_map::at carries the name of
\* the function that threw; the ownership violation names key and owner.
what(status, key, owner) ==
  CASE status = "out_of_range" -> <<"unordered_map::at">>
    [] status = "ownership violation" -> <<status, key, owner>>
    [] OTHER -> << >>

\* What an accessor call leaves behind: the data as the caller's statement
\* left it, and the record of the call.
Accessed(op, key, tag, deriv, presented, owner, status, mutable, d, dd) ==
  /\ data_' = d
  /\ derivs_' = dd
  /\ access' = [op |-> op, key |-> key, tag |-> tag, deriv |-> deriv,
                presented |-> presented, owner |-> owner, status |-> status,
                mutable |-> mutable /\ status = "ok",
                wrote |-> (d # data_ \/ dd # derivs_),
                what |-> what(status, key, owner), has |-> FALSE]
  /\ UNCHANGED <<evaluatorVars, mpcVars, pkVars>>

\* S.Get<double>(fieldname, tag): a read.
CallGet(fieldname, tag) ==
  Accessed("Get", fieldname, tag, FALSE, FALSE, "",
           IF hasKey(data_, fieldname) /\ HasRecord(data_[fieldname], tag)
             THEN "ok" ELSE "out_of_range",
           FALSE, data_, derivs_)

\* S.GetW<double>(fieldname, tag, owner) = value
CallGetW(fieldname, tag, owner, value) ==
  LET status == GetW(Current, fieldname, tag, owner) IN
  Accessed("GetW", fieldname, tag, FALSE, TRUE, owner, status, TRUE,
           IF status = "ok"
             THEN [data_ EXCEPT ![fieldname][tag].value = value] ELSE data_,
           derivs_)

\* *S.GetPtrW<double>(fieldname, tag, owner) = value
CallGetPtrW(fieldname, tag, owner, value) ==
  LET status == GetPtrW(Current, fieldname, tag, owner) IN
  Accessed("GetPtrW", fieldname, tag, FALSE, TRUE, owner, status, TRUE,
           IF status = "ok"
             THEN [data_ EXCEPT ![fieldname][tag].value = value] ELSE data_,
           derivs_)

\* S.Set<double>(fieldname, tag, owner, value)
CallSet(fieldname, tag, owner, value) ==
  LET status == Set(Current, fieldname, tag, owner) IN
  Accessed("Set", fieldname, tag, FALSE, TRUE, owner, status, TRUE,
           IF status = "ok"
             THEN [data_ EXCEPT ![fieldname][tag].value = value] ELSE data_,
           derivs_)

\* S.GetRecordW(fieldname, tag, owner).set_initialized()
CallGetRecordW(fieldname, tag, owner) ==
  LET status == GetRecordW(Current, fieldname, tag, owner) IN
  Accessed("GetRecordW", fieldname, tag, FALSE, TRUE, owner, status, TRUE,
           IF status = "ok"
             THEN [data_ EXCEPT ![fieldname][tag].initialized = TRUE] ELSE data_,
           derivs_)

\* S.GetDerivativeW<double>(key, tag, wrt_key, wrt_tag, owner) = value
CallGetDerivativeW(key, tag, wrt_key, wrt_tag, owner, value) ==
  LET status == GetDerivativeW(Current, key, tag, wrt_key, wrt_tag, owner) IN
  Accessed("GetDerivativeW", getKeyTag(key, tag), getKeyTag(wrt_key, wrt_tag),
           TRUE, TRUE, owner, status, TRUE, data_,
           IF status = "ok"
             THEN [derivs_ EXCEPT
                     ![getKeyTag(key, tag)][getKeyTag(wrt_key, wrt_tag)].value = value]
             ELSE derivs_)

\* *S.GetDerivativePtrW<double>(key, tag, wrt_key, wrt_tag, owner) = value
CallGetDerivativePtrW(key, tag, wrt_key, wrt_tag, owner, value) ==
  LET status == GetDerivativePtrW(Current, key, tag, wrt_key, wrt_tag, owner) IN
  Accessed("GetDerivativePtrW", getKeyTag(key, tag), getKeyTag(wrt_key, wrt_tag),
           TRUE, TRUE, owner, status, TRUE, data_,
           IF status = "ok"
             THEN [derivs_ EXCEPT
                     ![getKeyTag(key, tag)][getKeyTag(wrt_key, wrt_tag)].value = value]
             ELSE derivs_)

\* S.GetRecordSetW(fieldname).GetRecord(tag).set_initialized(): the record
\* set is handed out writable, and its GetRecord is the one GetRecordW
\* itself calls to get the Record& it returns.
CallGetRecordSetW(fieldname, tag) ==
  LET status == IF GetRecordSetW(Current, fieldname) = "ok"
                     /\ HasRecord(data_[fieldname], tag)
                  THEN "ok" ELSE "out_of_range" IN
  Accessed("GetRecordSetW", fieldname, tag, FALSE, FALSE, "", status, TRUE,
           IF status = "ok"
             THEN [data_ EXCEPT ![fieldname][tag].initialized = TRUE] ELSE data_,
           derivs_)

\* S.GetDerivativeSet(key, tag).GetRecord(wrt).set_initialized()
CallGetDerivativeSet(key, tag, wrt_key, wrt_tag) ==
  LET keytag == getKeyTag(key, tag)
      wrt == getKeyTag(wrt_key, wrt_tag)
      status == IF GetDerivativeSet(Current, key, tag) = "ok"
                     /\ HasRecord(derivs_[keytag], wrt)
                  THEN "ok" ELSE "out_of_range" IN
  Accessed("GetDerivativeSet", keytag, wrt, TRUE, FALSE, "", status, TRUE, data_,
           IF status = "ok"
             THEN [derivs_ EXCEPT ![keytag][wrt].initialized = TRUE] ELSE derivs_)

\* S.HasData(key, tag)
CallHasData(key, tag) ==
  /\ access' = [NoAccess EXCEPT !.op = "HasData", !.key = key, !.tag = tag,
                                !.has = HasData(Current, key, tag)]
  /\ UNCHANGED <<data_, derivs_, evaluatorVars, mpcVars, pkVars>>

\* S.HasDerivative(key, tag, wrt_key, wrt_tag)
CallHasDerivative(key, tag, wrt_key, wrt_tag) ==
  /\ access' = [NoAccess EXCEPT
                  !.op = "HasDerivative", !.key = getKeyTag(key, tag),
                  !.tag = getKeyTag(wrt_key, wrt_tag), !.deriv = TRUE,
                  !.has = HasDerivative(Current, key, tag, wrt_key, wrt_tag)]
  /\ UNCHANGED <<data_, derivs_, evaluatorVars, mpcVars, pkVars>>

NextState ==
  \/ \E c \in RequireCalls : Require(c[1], c[2], c[3])
  \/ \E c \in RequireDerivativeCalls :
        RequireDerivative(c[1], c[2], c[3], c[4], c[5])
  \/ \E fieldname \in StateKeys, tag \in StateTags : CallGet(fieldname, tag)
  \/ \E fieldname \in StateKeys, tag \in StateTags, owner \in Owners,
        value \in WriteValues : CallGetW(fieldname, tag, owner, value)
  \/ \E fieldname \in StateKeys, tag \in StateTags, owner \in Owners,
        value \in WriteValues : CallGetPtrW(fieldname, tag, owner, value)
  \/ \E fieldname \in StateKeys, tag \in StateTags, owner \in Owners,
        value \in WriteValues : CallSet(fieldname, tag, owner, value)
  \/ \E fieldname \in StateKeys, tag \in StateTags, owner \in Owners :
        CallGetRecordW(fieldname, tag, owner)
  \/ \E c \in RequireDerivativeCalls, owner \in Owners, value \in WriteValues :
        CallGetDerivativeW(c[1], c[2], c[3], c[4], owner, value)
  \/ \E c \in RequireDerivativeCalls, owner \in Owners, value \in WriteValues :
        CallGetDerivativePtrW(c[1], c[2], c[3], c[4], owner, value)
  \/ \E fieldname \in StateKeys, tag \in StateTags :
        CallGetRecordSetW(fieldname, tag)
  \/ \E c \in RequireDerivativeCalls : CallGetDerivativeSet(c[1], c[2], c[3], c[4])
  \/ \E key \in StateKeys, tag \in StateTags : CallHasData(key, tag)
  \/ \E c \in RequireDerivativeCalls : CallHasDerivative(c[1], c[2], c[3], c[4])

SpecState == InitState /\ [][NextState]_vars

\* The record the last access was about, where it is registered.
AccessedRecords == IF access.deriv THEN derivs_ ELSE data_

AccessedIsRegistered ==
  /\ hasKey(AccessedRecords, access.key)
  /\ HasRecord(AccessedRecords[access.key], access.tag)

OwnerTaking ==
  {"GetW", "GetPtrW", "Set", "GetRecordW", "GetDerivativeW", "GetDerivativePtrW"}

\* C7: an owner-taking mutable accessor called with an owner string other
\* than the record's registered owner fails with an ownership violation,
\* hands out nothing writable and leaves State's data as it was; called with
\* the registered owner it succeeds.
C7_OwnerCheckedAccess ==
  (access.op \in OwnerTaking /\ AccessedIsRegistered) =>
    IF access.owner = AccessedRecords[access.key][access.tag].owner
      THEN access.status = "ok" /\ access.mutable
      ELSE /\ access.status = "ownership violation"
           /\ ~access.mutable
           /\ ~access.wrote

\* C7 witness: GetRecordW on an initialized record of A, refused to B.
C7_Witness ==
  /\ access.op = "GetRecordW" /\ access.key = "fa" /\ access.tag = ""
  /\ access.owner = "fb"
  /\ AccessedIsRegistered
  /\ data_["fa"][""].owner = "fa"
  /\ data_["fa"][""].value = 2
  /\ access.status = "ownership violation"
  /\ ~access.wrote

\* C8: whoever obtains mutable access to a record, or writes it, through an
\* operation of State has presented the record's registered owner.
C8_NoMutableAccessWithoutOwner ==
  (access.mutable \/ access.wrote) =>
    /\ access.presented
    /\ AccessedIsRegistered
    /\ access.owner = AccessedRecords[access.key][access.tag].owner

\* C21: Require is idempotent.  A Require<T>(key, tag, owner) or a
\* RequireDerivative made again with the arguments the record was registered
\* with leaves State with the same record sets and the same records: nothing
\* is added, and the record keeps its value, its owner and its initialized
\* flag.
C21_RequireIdempotent ==
  [][(/\ access'.op \in {"Require", "RequireDerivative"}
      /\ LET recs == IF access'.deriv THEN derivs_ ELSE data_
         IN /\ hasKey(recs, access'.key)
            /\ HasRecord(recs[access'.key], access'.tag)
            /\ recs[access'.key][access'.tag].owner = access'.owner)
     => (data_' = data_ /\ derivs_' = derivs_)]_vars

\* C21 witness: A is required again after its owner wrote 2 into it and
\* flagged it initialized; value and flag are still there.
C21_Witness ==
  /\ access.op = "Require" /\ access.key = "fa" /\ access.tag = ""
  /\ access.owner = "fa"
  /\ AccessedIsRegistered
  /\ data_["fa"][""].owner = "fa"
  /\ data_["fa"][""].value = 2
  /\ data_["fa"][""].initialized

\* The owners to which GetW grants mutable access to the record (key, tag).
WriteOwners(key, tag) == {o \in Owners : GetW(Current, key, tag, o) = "ok"}

\* C22: whatever Require calls were made, every (Key, Tag) record has at most
\* one owner that is granted write access, so two callers that name different
\* owners never both obtain mutable access; and a registered record keeps
\* its owner: no later Require or access transfers the first owner's right.
C22_SingleWriter ==
  /\ [](\A key \in DOMAIN data_ : \A tag \in DOMAIN data_[key] :
          Cardinality(WriteOwners(key, tag)) <= 1)
  /\ [][\A key \in DOMAIN data_ : \A tag \in DOMAIN data_[key] :
          /\ hasKey(data_', key) /\ HasRecord(data_'[key], tag)
          /\ data_'[key][tag].owner = data_[key][tag].owner]_vars

\* C22 witness: A, registered and written by owner "fa", is required by a
\* second caller naming "fb"; the record still belongs to "fa" alone.
C22_Witness ==
  /\ access.op = "Require" /\ access.key = "fa" /\ access.tag = ""
  /\ access.owner = "fb"
  /\ AccessedIsRegistered
  /\ data_["fa"][""].owner = "fa"
  /\ data_["fa"][""].value = 2
  /\ WriteOwners("fa", "") = {"fa"}

\* The accessors of State that look a key up and return its data.
Lookups ==
  {"Get", "GetW", "GetPtrW", "Set", "GetRecordW", "GetRecordSetW",
   "GetDerivativeW", "GetDerivativePtrW", "GetDerivativeSet"}

\* The last access asked for a key that was never required.
NeverRequired == ~hasKey(AccessedRecords, access.key)

\* The parts of the message of the error the last access raised.
Reported == {access.what[i] : i \in DOMAIN access.what}

\* C23: an access to a key that was never required is a fatal lookup error
\* reported together with the offending key, never a silent default; HasData
\* and HasDerivative answer false for such a key and raise nothing.
C23_UnknownKeyReported ==
  NeverRequired =>
    /\ access.op \in Lookups =>
          /\ access.status = "out_of_range"
          /\ ~access.mutable /\ ~access.wrote
          /\ access.key \in Reported
    /\ access.op \in {"HasData", "HasDerivative"} =>
          access.status = "ok" /\ ~access.has

(***************************************************************************)
(* Specification SpecTensor: EvaluatorIndependentTensorFunction resolving  *)
(* the shape of its record, while the mesh and the components of the       *)
(* record come from whoever else requires it.                              *)
(***************************************************************************)
\* my_key_ of the evaluator, the values of its "tensor rank" parameter, the
\* dimensions of a mesh and the components a record may be given.
TensorKey == "K"
TensorRanks == {1, 2}
MeshDimensions == {2, 3}
Components == {"cell", "face"}

\* WhetStone::WHETSTONE_TENSOR_SIZE[dimension - 1][rank - 1].
WHETSTONE_TENSOR_SIZE(dimension, rank) ==
  <<<<1, 1, 0, 1>>, <<1, 3, 0, 6>>, <<1, 6, 0, 21>>>>[dimension][rank]

InitTensor ==
  /\ tensor \in {[NoTensor EXCEPT !.tensor_rank = r] : r \in TensorRanks}
  /\ life = NoLife
  /\ pk_tree_ = NoTree
  /\ vis = NoVis
  /\ time_stepper_ = NoStepper
  /\ driver = NoDriver
  /\ sw = NoSW
  /\ data_ = << >>
  /\ derivs_ = << >>
  /\ access = NoAccess
  /\ requests_ = [k \in Fields |-> {}]
  /\ deriv_requests_ = [k \in Fields |-> {}]
  /\ evals = [k \in Fields |-> 0]
  /\ dirty = {}
  /\ served = {}
  /\ nChanges = 0
  /\ nCalls = 0
  /\ lastCall = NoCall
  /\ sub_pks_ = << >>
  /\ dt_ = 0
  /\ ret = NoRet

\* An EnsureCompatibility that resolves the shape at every call with a mesh.
EnsureCompatibility_EveryCall ==
  LET f == tensor.f
      dimension == f.dimension
      rank == tensor.tensor_rank
      num_funcs == WHETSTONE_TENSOR_SIZE(dimension, rank)
  IN
  /\ tensor.ncalls < MaxCalls
  /\ data_' = Required(data_, TensorKey, "", TensorKey)
  /\ tensor' =
       IF f.mesh
         THEN [tensor EXCEPT
                 !.dimension_ = dimension, !.rank_ = rank,
                 !.num_funcs_ = num_funcs,
                 !.f.rank = rank,
                 !.f.map = [name \in DOMAIN f.map |-> num_funcs],
                 !.ncalls = @ + 1, !.op = "EnsureCompatibility"]
         ELSE [tensor EXCEPT !.ncalls = @ + 1, !.op = "EnsureCompatibility"]
  /\ UNCHANGED <<derivs_, access, evaluatorVars, mpcVars, time_stepper_,
                 driver, sw, life, pk_tree_, vis>>

\* EvaluatorIndependentTensorFunction::EnsureCompatibility(S): the record is
\* required, and once, when the factory has a mesh, dimension_, rank_ and
\* num_funcs_ are set and every component of the map is given num_funcs_
\* vectors.
EnsureCompatibility ==
  LET f == tensor.f
      dimension == f.dimension
      rank == tensor.tensor_rank
      num_funcs == WHETSTONE_TENSOR_SIZE(dimension, rank)
  IN
  /\ tensor.ncalls < MaxCalls
  /\ data_' = Required(data_, TensorKey, "", TensorKey)
  /\ tensor' =
       IF tensor.rank_ = -1 /\ f.mesh
         THEN [tensor EXCEPT
                 !.dimension_ = dimension, !.rank_ = rank,
                 !.num_funcs_ = num_funcs,
                 !.f.rank = rank,
                 !.f.map = [name \in DOMAIN f.map |-> num_funcs],
                 !.ncalls = @ + 1, !.op = "EnsureCompatibility"]
         ELSE [tensor EXCEPT !.ncalls = @ + 1, !.op = "EnsureCompatibility"]
  /\ UNCHANGED <<derivs_, access, evaluatorVars, mpcVars, time_stepper_,
                 driver, sw, life, pk_tree_, vis>>

\* S.Require<TensorVector, TensorVector_Factory>(key, tag).SetMesh(mesh) by
\* another requirer of the record.
SetMesh(dimension) ==
  /\ ~tensor.f.mesh
  /\ data_' = Required(data_, TensorKey, "", TensorKey)
  /\ tensor' = [tensor EXCEPT !.f.mesh = TRUE, !.f.dimension = dimension,
                              !.op = "SetMesh"]
  /\ UNCHANGED <<derivs_, access, evaluatorVars, mpcVars, time_stepper_,
                 driver, sw, life, pk_tree_, vis>>

\* ... .AddComponent(name, location, 1) by another requirer of the record.
AddComponent(name) ==
  /\ name \notin DOMAIN tensor.f.map
  /\ data_' = Required(data_, TensorKey, "", TensorKey)
  /\ tensor' = [tensor EXCEPT !.f.map = @ @@ (name :> 1),
                              !.op = "AddComponent"]
  /\ UNCHANGED <<derivs_, access, evaluatorVars, mpcVars, time_stepper_,
                 driver, sw, life, pk_tree_, vis>>

NextTensor ==
  \/ EnsureCompatibility
  \/ \E dimension \in MeshDimensions : SetMesh(dimension)
  \/ \E name \in Components : AddComponent(name)

SpecTensor == InitTensor /\ [][NextTensor]_vars

\* What EnsureCompatibility resolves: the evaluator's rank, dimension and
\* number of functions, and the rank and component map of the factory.
TensorShape(t) == <<t.rank_, t.dimension_, t.num_funcs_, t.f.rank, t.f.map>>

\* C25: shape resolution is idempotent.  A call of EnsureCompatibility made
\* before the factory has a mesh changes nothing of the shape; the first call
\* made with a mesh fixes rank, dimension and the component map; and a call
\* made after that changes no record, no owner and no setting of the
\* factory.  Once fixed, rank, dimension and number of functions stay.
C25_ShapeResolutionIdempotent ==
  [][/\ tensor'.ncalls = tensor.ncalls + 1 =>
          /\ ~tensor.f.mesh => TensorShape(tensor') = TensorShape(tensor)
          /\ (tensor.f.mesh /\ tensor.rank_ = -1) =>
                /\ tensor'.rank_ = tensor.tensor_rank
                /\ tensor'.rank_ > 0
                /\ tensor'.dimension_ = tensor.f.dimension
                /\ tensor'.f.rank = tensor'.rank_
                /\ DOMAIN tensor'.f.map = DOMAIN tensor.f.map
                /\ \A name \in DOMAIN tensor'.f.map :
                      tensor'.f.map[name] = tensor'.num_funcs_
          /\ tensor.rank_ # -1 =>
                /\ data_' = data_
                /\ tensor'.f = tensor.f
                /\ TensorShape(tensor') = TensorShape(tensor)
     /\ tensor.rank_ # -1 =>
          <<tensor'.rank_, tensor'.dimension_, tensor'.num_funcs_, tensor'.f.rank>>
            = <<tensor.rank_, tensor.dimension_, tensor.num_funcs_, tensor.f.rank>>
    ]_vars

\* C25 witness: rank 2 on a 3D mesh resolved with the component "cell" only
\* (6 vectors); "face" was added afterwards with 1 vector, and the call made
\* since then has left it so.
C25_Witness ==
  /\ tensor.rank_ = 2 /\ tensor.dimension_ = 3 /\ tensor.num_funcs_ = 6
  /\ DOMAIN tensor.f.map = {"cell", "face"}
  /\ tensor.f.map["cell"] = 6 /\ tensor.f.map["face"] = 1
  /\ tensor.op = "EnsureCompatibility"

(***************************************************************************)
(* Specification SpecLife: the life of State over a set of evaluators:     *)
(* Require, Setup, the owners initializing their primaries, Initialize,    *)
(* and then Update.  The declared dependencies need not form a DAG.        *)
(***************************************************************************)
\* The evaluators set in State and a field no evaluator stands for.
LifeKeys == {"fa", "fc", "fe", "fg"}
ExternalKey == "fx"

\* dependencies_ as declared by the evaluators: a diamond, a chain, nothing,
\* and three graphs with a cycle (A <-> C, G on itself below A, A..G..A).
Graphs ==
  {[fa |-> <<"fc", "fe">>, fc |-> <<"fg">>, fe |-> <<"fg">>, fg |-> << >>],
   [fa |-> <<"fc">>, fc |-> <<"fe">>, fe |-> <<"fg">>, fg |-> << >>],
   [fa |-> << >>, fc |-> << >>, fe |-> << >>, fg |-> << >>],
   [fa |-> <<"fc">>, fc |-> <<"fa">>, fe |-> <<"fg">>, fg |-> << >>],
   [fa |-> <<"fc">>, fc |-> <<"fg">>, fe |-> << >>, fg |-> <<"fg">>],
   [fa |-> <<"fc">>, fc |-> <<"fe">>, fe |-> <<"fg">>, fg |-> <<"fa">>]}

\* The components the PKs ask of A and of C before Setup.
InitialShapes ==
  {[fa |-> a, fc |-> c, fe |-> {}, fg |-> {}] :
     a \in {{}, {"cell"}, {"face"}}, c \in {{}, {"cell"}, {"face"}}}

\* The bound on the number of EnsureCompatibility passes of one Setup.
MaxPasses == 6

Range(seq) == {seq[i] : i \in DOMAIN seq}

RECURSIVE ReachFrom(_, _)
\* Every key reached from the set keys along the declared dependencies.
ReachFrom(g, keys) ==
  LET more == keys \cup UNION {Range(g[k]) : k \in keys}
  IN IF more = keys THEN keys ELSE ReachFrom(g, more)

\* The transitive dependencies of key, and the keys on a cycle.
Below(g, key) == ReachFrom(g, Range(g[key]))
OnCycle(g, key) == key \in Below(g, key)
Acyclic(g) == \A k \in DOMAIN g : ~OnCycle(g, k)

RECURSIVE Visit_RevisitIsDone(_, _, _)
\* A traversal that takes a key met again on its own path as already done.
Visit_RevisitIsDone(g, key, path) ==
  IF key \in path THEN "ok"
  ELSE IF \E i \in 1..Len(g[key]) :
            Visit_RevisitIsDone(g, g[key][i], path \cup {key}) = "configuration error"
    THEN "configuration error"
  ELSE "ok"

RECURSIVE Visit(_, _, _)
\* The traversal the evaluators make from key down their dependencies, path
\* being the keys between the root and key: a key met again on its own path
\* is a cycle and is reported.
Visit(g, key, path) ==
  IF key \in path THEN "configuration error"
  ELSE IF \E i \in 1..Len(g[key]) :
            Visit(g, g[key][i], path \cup {key}) = "configuration error"
    THEN "configuration error"
  ELSE "ok"

\* One pass of EnsureCompatibility over every evaluator: each hands what is
\* required of it to its dependencies.  A malformed A asks for another
\* component at every pass.
Pass(g, malformed, shape) ==
  [k \in DOMAIN g |->
     (IF malformed /\ k = "fa"
        THEN IF shape[k] = {"cell"} THEN {"face"} ELSE {"cell"}
        ELSE shape[k])
     \cup UNION {shape[p] : p \in {q \in DOMAIN g : k \in Range(g[q])}}]

\* A Setup that makes one pass and takes the result for final.
Iterate_OnePass(g, malformed, shape, n) ==
  [shape |-> Pass(g, malformed, shape), passes |-> 1, converged |-> TRUE]

RECURSIVE Iterate(_, _, _, _)
\* Passes repeated until one changes nothing, MaxPasses at most.
Iterate(g, malformed, shape, n) ==
  IF n = MaxPasses THEN [shape |-> shape, passes |-> n, converged |-> FALSE]
  ELSE LET next == Pass(g, malformed, shape)
       IN IF next = shape
            THEN [shape |-> shape, passes |-> n + 1, converged |-> TRUE]
            ELSE Iterate(g, malformed, next, n + 1)

RECURSIVE RequiredAll(_, _)
\* Every evaluator's EnsureCompatibility requires its own record.
RequiredAll(d, keys) ==
  IF keys = {} THEN d
  ELSE LET k == CHOOSE k \in keys : TRUE
       IN RequiredAll(Required(d, k, "", k), keys \ {k})

\* A check that passes whatever the records' flags are.
CheckAllFieldsInitialized_Passes(d) == TRUE

\* State::CheckAllFieldsInitialized().
CheckAllFieldsInitialized(d) ==
  \A k \in DOMAIN d : \A t \in DOMAIN d[k] : d[k][t].initialized

\* The secondaries' records as their evaluators fill them in Initialize.
InitializeEvaluators(g, d) ==
  [k \in DOMAIN d |->
     IF k \in DOMAIN g /\ Len(g[k]) > 0
       THEN [t \in DOMAIN d[k] |-> [d[k][t] EXCEPT !.initialized = TRUE]]
       ELSE d[k]]

InitLife ==
  /\ life \in {[NoLife EXCEPT !.phase = "require", !.graph = g,
                              !.malformed = m, !.shape = sh] :
                 g \in Graphs, m \in BOOLEAN, sh \in InitialShapes}
  /\ tensor = NoTensor
  /\ pk_tree_ = NoTree
  /\ vis = NoVis
  /\ time_stepper_ = NoStepper
  /\ driver = NoDriver
  /\ sw = NoSW
  /\ data_ = << >>
  /\ derivs_ = << >>
  /\ access = NoAccess
  /\ requests_ = [k \in Fields |-> {}]
  /\ deriv_requests_ = [k \in Fields |-> {}]
  /\ evals = [k \in Fields |-> 0]
  /\ dirty = {}
  /\ served = {}
  /\ nChanges = 0
  /\ nCalls = 0
  /\ lastCall = NoCall
  /\ sub_pks_ = << >>
  /\ dt_ = 0
  /\ ret = NoRet

lifeUnchanged ==
  <<derivs_, access, evaluatorVars, mpcVars, time_stepper_, driver, sw, tensor,
    pk_tree_, vis>>

\* State::Setup(): EnsureCompatibility of every evaluator, pass after pass.
State_Setup ==
  LET g == life.graph
      r == Iterate(g, life.malformed, life.shape, 0)
  IN
  /\ life.phase \in {"require", "setup", "ready"}
  /\ IF \E k \in DOMAIN g : Visit(g, k, {}) = "configuration error"
       THEN /\ life' = [life EXCEPT !.op = "Setup", !.key = "",
                                    !.status = "configuration error",
                                    !.passes = 0, !.repeated = FALSE,
                                    !.evaluated = {}]
            /\ UNCHANGED data_
       ELSE /\ life' = [life EXCEPT
                          !.op = "Setup", !.key = "",
                          !.status = IF r.converged THEN "ok" ELSE "no fixpoint",
                          !.passes = r.passes,
                          !.shape = r.shape,
                          !.repeated = (life.phase # "require"),
                          !.evaluated = {},
                          !.phase = IF r.converged /\ life.phase = "require"
                                      THEN "setup" ELSE @]
            /\ data_' = RequiredAll(data_, DOMAIN g)
  /\ UNCHANGED lifeUnchanged

\* S.GetW<double>(key, key) = 1.0; S.GetRecordW(key, key).set_initialized();
\* made by the owner of a primary between Setup and Initialize.
SetInitialized(key) ==
  /\ life.phase = "setup"
  /\ Len(life.graph[key]) = 0
  /\ GetW(Current, key, "", key) = "ok"
  /\ GetRecordW(Current, key, "", key) = "ok"
  /\ ~data_[key][""].initialized
  /\ data_' = [data_ EXCEPT ![key][""].value = 1, ![key][""].initialized = TRUE]
  /\ UNCHANGED <<life, lifeUnchanged>>

\* State::Initialize(): the evaluators fill their records, then every
\* record must be initialized.  An initialized State is not initialized
\* again.
State_Initialize ==
  /\ life.phase \in {"setup", "ready"}
  /\ IF life.phase = "ready"
       THEN /\ life' = [life EXCEPT !.op = "Initialize", !.key = "",
                                    !.status = "rejected", !.repeated = TRUE,
                                    !.passes = 0, !.evaluated = {}]
            /\ UNCHANGED data_
       ELSE LET d == InitializeEvaluators(life.graph, data_)
                ok == CheckAllFieldsInitialized(d)
            IN /\ data_' = d
               /\ life' = [life EXCEPT
                             !.op = "Initialize", !.key = "",
                             !.status = IF ok THEN "ok" ELSE "not initialized",
                             !.repeated = FALSE, !.passes = 0, !.evaluated = {},
                             !.phase = IF ok THEN "ready" ELSE "failed"]
  /\ UNCHANGED lifeUnchanged

\* eval->Update(S, request) or eval->UpdateDerivative(S, request, wrt, "") on
\* the evaluator of key: the traversal, then the evaluations.
UpdateOn(op, key) ==
  LET status == Visit(life.graph, key, {}) IN
  /\ life.phase = "ready" \/ ~Acyclic(life.graph)
  /\ life' = [life EXCEPT
                !.op = op, !.key = key, !.status = status, !.passes = 0,
                !.repeated = FALSE,
                !.evaluated = IF status = "ok"
                                THEN {k \in {key} \cup Below(life.graph, key) :
                                        Len(life.graph[k]) > 0}
                                ELSE {}]
  /\ UNCHANGED <<data_, lifeUnchanged>>

NextLife ==
  \/ State_Setup
  \/ \E key \in LifeKeys : SetInitialized(key)
  \/ State_Initialize
  \/ \E key \in LifeKeys : UpdateOn("Update", key)
  \/ \E key \in LifeKeys : UpdateOn("UpdateDerivative", key)
  \/ /\ life.phase \in {"require", "setup", "ready"}
     /\ Require(ExternalKey, "", ExternalKey)

SpecLife == InitLife /\ [][NextLife]_vars

\* A cycle is met on the way down from key.
CycleBelow(g, key) == \E k \in {key} \cup Below(g, key) : OnCycle(g, k)

\* C24: where the declared dependencies contain a cycle, Setup, and Update
\* or UpdateDerivative on a node of the cycle or above it, end by reporting a
\* configuration error, with nothing evaluated and nothing set up; where
\* they contain none, no such error is reported.
C24_CycleReported ==
  /\ life.op \in {"Update", "UpdateDerivative"} =>
        IF CycleBelow(life.graph, life.key)
          THEN life.status = "configuration error" /\ life.evaluated = {}
          ELSE life.status = "ok"
  /\ life.op = "Setup" =>
        IF Acyclic(life.graph)
          THEN life.status # "configuration error"
          ELSE /\ life.status = "configuration error"
               /\ life.phase = "require" /\ life.passes = 0
  /\ ~Acyclic(life.graph) => life.phase = "require"

\* C24 witness: Update on C, which depends on A, which depends on C.
C24_Witness ==
  /\ life.op = "Update" /\ life.key = "fc"
  /\ life.graph["fc"] = <<"fa">> /\ life.graph["fa"] = <<"fc">>
  /\ life.status = "configuration error"
  /\ life.evaluated = {}

\* C26: Setup ends for every acyclic graph: the passes reach a fixpoint
\* within the number of evaluators, well below the bound; what is required
\* of an evaluator is then required of everything it transitively depends
\* on; a Setup repeated finds the fixpoint at its first pass; and with a
\* malformed evaluator the passes stop at the bound and State is not set up.
C26_SetupReachesFixpoint ==
  (life.op = "Setup" /\ Acyclic(life.graph)) =>
    /\ life.passes <= MaxPasses
    /\ ~life.malformed =>
          /\ life.status = "ok"
          /\ life.passes <= Cardinality(DOMAIN life.graph)
          /\ life.passes < MaxPasses
          /\ Pass(life.graph, FALSE, life.shape) = life.shape
          /\ \A k \in DOMAIN life.graph : \A d \in Below(life.graph, k) :
                life.shape[k] \subseteq life.shape[d]
          /\ life.repeated => life.passes = 1
          /\ \A k \in DOMAIN life.graph : HasData(Current, k, "")
    /\ life.malformed =>
          /\ life.status = "no fixpoint"
          /\ life.passes = MaxPasses
          /\ life.phase = "require"

\* C26 witness: on the chain A -> C -> E -> G the cells asked of A have
\* reached G, in four passes.
C26_Witness ==
  /\ life.op = "Setup" /\ life.status = "ok" /\ life.passes = 4
  /\ life.graph["fa"] = <<"fc">> /\ life.graph["fc"] = <<"fe">>
  /\ life.graph["fe"] = <<"fg">>
  /\ life.shape["fa"] = {"cell"}
  /\ "cell" \in life.shape["fg"]
  /\ life.phase = "setup"

\* The records State holds that no evaluator fills: the primaries' and
\* those required from outside.
OwnerInitialized(d) ==
  \A k \in DOMAIN d :
     (k \notin DOMAIN life.graph \/ Len(life.graph[k]) = 0) =>
        \A t \in DOMAIN d[k] : d[k][t].initialized

C28_NoRequireAfterReady ==
  /\ life.phase = "ready" => ~HasData(Current, ExternalKey, "")
  /\ (life.op = "Initialize" /\ life.repeated) => life.status = "rejected"

(***************************************************************************)
(* Specification SpecMPC: the strongly coupled composite MPCStrong over    *)
(* its list of sub-PKs.  Timesteps are counted in tenths of a time unit.   *)
(***************************************************************************)
\* The timesteps sub-PKs propose and callers set: 0.2, 0.5, 0.8.
DtValues == {2, 5, 8}

\* What dt_ may hold while nothing has been assigned to it: the constructor
\* leaves the member without a value.
IndeterminateDt == {0, 2, 9}

\* A sub-PK as the composite sees it: its own get_dt(), its answer to
\* IsAdmissible, its "strongly coupled PK" parameter, whether Setup() ran.
SubPKs ==
  [dt : DtValues, admissible : BOOLEAN, strongly_coupled : {FALSE},
   setup : {FALSE}]

SubPKLists == UNION {[1..n -> SubPKs] : n \in 0..MaxPKs}

\* MPCStrong::MPCStrong: the base class builds sub_pks_, dt_ is not set.
InitMPC ==
  /\ sub_pks_ \in SubPKLists
  /\ dt_ \in IndeterminateDt
  /\ ret = NoRet
  /\ InitPKs
  /\ data_ = << >>
  /\ derivs_ = << >>
  /\ access = NoAccess
  /\ requests_ = [k \in Fields |-> {}]
  /\ deriv_requests_ = [k \in Fields |-> {}]
  /\ evals = [k \in Fields |-> 0]
  /\ dirty = {}
  /\ served = {}
  /\ nChanges = 0
  /\ nCalls = 0
  /\ lastCall = NoCall

stateVars == <<data_, derivs_, access>>

\* MPCStrong::get_dt(): return dt_.
get_dt == dt_

\* MPC_PK::Setup(): every sub-PK's Setup().
MPC_PK_Setup(pks) == [i \in DOMAIN pks |-> [pks[i] EXCEPT !.setup = TRUE]]

\* MPCStrong::Setup(): flag the sub-PK lists, set the sub-PKs up,
\* dt_ = get_dt().
Setup ==
  /\ sub_pks_' = MPC_PK_Setup([i \in DOMAIN sub_pks_ |->
                                 [sub_pks_[i] EXCEPT !.strongly_coupled = TRUE]])
  /\ dt_' = get_dt
  /\ ret' = [NoRet EXCEPT !.op = "Setup", !.dt = get_dt]
  /\ UNCHANGED <<stateVars, evaluatorVars, pkVars>>

\* dt = pk->get_dt()
CallGetDt ==
  /\ ret' = [NoRet EXCEPT !.op = "get_dt", !.dt = get_dt]
  /\ UNCHANGED <<sub_pks_, dt_, stateVars, evaluatorVars, pkVars>>

\* MPCStrong::set_dt(dt): dt_ = dt.
set_dt(dt) ==
  /\ dt_' = dt
  /\ ret' = [NoRet EXCEPT !.op = "set_dt", !.dt = dt]
  /\ UNCHANGED <<sub_pks_, stateVars, evaluatorVars, pkVars>>

RECURSIVE IsAdmissible(_, _)
\* MPCStrong::IsAdmissible(u), the loop from sub-PK i on, for a vector u of
\* nsub sub-vectors: a missing sub-vector throws, an inadmissible sub-PK
\* returns false, and the end of the loop is the end of the function.
IsAdmissible(i, nsub) ==
  IF i > Len(sub_pks_) THEN "end"
  ELSE IF i > nsub THEN "throw"
  ELSE IF ~sub_pks_[i].admissible THEN "false"
  ELSE IsAdmissible(i + 1, nsub)

\* What the caller of IsAdmissible(u) gets, u of nsub sub-vectors.  Control
\* that reaches the end of the function returns no value: the caller reads
\* whatever the build left there.
IsAdmissibleReturned(nsub, garbage) ==
  LET r == IsAdmissible(1, nsub) IN
  [NoRet EXCEPT
     !.op = "IsAdmissible",
     !.status = IF r = "throw"
                  THEN "MPC: vector structure does not match PK structure"
                  ELSE "ok",
     !.flag = IF r = "end" THEN garbage ELSE FALSE,
     !.fallThrough = (r = "end"),
     !.args = <<[null |-> FALSE, v |-> [k \in 1..nsub |-> 1]]>>]

\* ok = pk->IsAdmissible(u).
CallIsAdmissible(nsub, garbage) ==
  /\ IsAdmissible(1, nsub) = "end" \/ ~garbage
  /\ ret' = IsAdmissibleReturned(nsub, garbage)
  /\ UNCHANGED <<sub_pks_, dt_, stateVars, evaluatorVars, pkVars>>

NextMPC ==
  \/ Setup
  \/ CallGetDt
  \/ \E dt \in DtValues : set_dt(dt)
  \/ \E nsub \in 0..MaxPKs, garbage \in BOOLEAN : CallIsAdmissible(nsub, garbage)

SpecMPC == InitMPC /\ [][NextMPC]_vars

\* C9: composite IsAdmissible(u) is the conjunction of the sub-PKs' answers:
\* false when one of them reports inadmissible, true, by a return statement,
\* when all of them report admissible, also when there is no sub-PK.
C9_AdmissibleIsConjunction ==
  (ret.op = "IsAdmissible" /\ ret.status = "ok") =>
    /\ ret.flag = (\A i \in 1..Len(sub_pks_) : sub_pks_[i].admissible)
    /\ ~ret.fallThrough

\* C10: get_dt() of a composite with sub-PKs is the minimum of the sub-PKs'
\* timesteps, and so is the value held right after Setup().
C10_DtIsMinimumOfSubPKs ==
  (ret.op \in {"get_dt", "Setup"} /\ Len(sub_pks_) > 0) =>
    /\ \A i \in 1..Len(sub_pks_) : ret.dt <= sub_pks_[i].dt
    /\ \E i \in 1..Len(sub_pks_) : ret.dt = sub_pks_[i].dt
    /\ ret.op = "Setup" => dt_ = ret.dt

(***************************************************************************)
(* Specification SpecDelegate: the operations MPCStrong hands down to its  *)
(* sub-PKs, block by block.  A tree vector is the sequence of its          *)
(* sub-vectors, each sub-vector one number; a sub-vector is handed to a    *)
(* sub-PK by its position in the tree vector.                              *)
(***************************************************************************)
StructureError == "MPC: vector structure does not match PK structure"

\* Teuchos::null, the sub-vector a tree vector does not have.
Null == 0

\* TreeVector::SubVector(i): the i-th sub-vector, Teuchos::null when the
\* tree vector has none there.
SubVector(v, i) == IF i <= Len(v) THEN i ELSE Null

\* The entries sub-vectors hold, and the tree vectors callers pass.
BlockValues == {1, 2}

TreeVectors == UNION {[1..n -> BlockValues] : n \in 0..MaxPKs}

TreeShapes == {[k \in 1..n |-> 1] : n \in 0..MaxPKs}

\* A pointer to a tree vector, and the null pointer.
RCP(v) == [null |-> FALSE, v |-> v]

NullRCP == [null |-> TRUE, v |-> << >>]

\* What a sub-PK answers: an error norm, a ModifyCorrectionResult
\* (CORRECTION_NOT_MODIFIED = 0 is the weakest), a ModifyPredictor flag.
Norms == {0, 1, 2}

CORRECTION_NOT_MODIFIED == 0

ModifyCorrectionResults == {0, 1, 2}

\* Sub-PK i's Functional and ApplyPreconditioner on its own block: the block
\* written is a function of the sub-PK and of the block read.
SubPK_Functional(i, x) == 10 * i + x

SubPK_ApplyPreconditioner(i, x) == 20 * i + x

Max(a, b) == IF a >= b THEN a ELSE b

\* What a delegating loop has done so far: the sub-PKs called and the
\* sub-vectors handed to each, the vector written, the value accumulated.
Delegated(out, value, flag) ==
  [status |-> "ok", calls |-> << >>, out |-> out, value |-> value, flag |-> flag]

Throw(acc) == [acc EXCEPT !.status = StructureError]

SubPKCall(acc, i, sub) == [acc EXCEPT !.calls = Append(@, [pk |-> i, sub |-> sub])]

RECURSIVE Functional_ChecksFirst(_, _, _, _)
\* A Functional that tests every sub-vector before it calls any sub-PK.
Functional_ChecksFirst(i, u_old, u_new, acc) ==
  IF i > Len(sub_pks_) THEN acc
  ELSE IF \/ ~u_old.null /\ Len(u_old.v) < Len(sub_pks_)
          \/ Len(u_new) < Len(sub_pks_)
          \/ Len(acc.out) < Len(sub_pks_)
    THEN Throw(acc)
  ELSE Functional_ChecksFirst(i + 1, u_old, u_new,
         [SubPKCall(acc, i, <<IF u_old.null THEN Null ELSE i, i, i>>) EXCEPT
            !.out[i] = SubPK_Functional(i, u_new[i])])

RECURSIVE Functional(_, _, _, _)
\* MPCStrong::Functional(t_old, t_new, u_old, u_new, g), the loop from
\* sub-PK i on; acc.out is g.
Functional(i, u_old, u_new, acc) ==
  IF i > Len(sub_pks_) THEN acc
  ELSE LET pk_u_old == IF u_old.null THEN Null ELSE SubVector(u_old.v, i)
           pk_u_new == SubVector(u_new, i)
           pk_g == SubVector(acc.out, i)
       IN IF ~u_old.null /\ pk_u_old = Null THEN Throw(acc)
          ELSE IF pk_u_new = Null THEN Throw(acc)
          ELSE IF pk_g = Null THEN Throw(acc)
          ELSE Functional(i + 1, u_old, u_new,
                 [SubPKCall(acc, i, <<pk_u_old, pk_u_new, pk_g>>) EXCEPT
                    !.out[pk_g] = SubPK_Functional(i, u_new[pk_u_new])])

RECURSIVE ApplyPreconditioner_FirstBlock(_, _, _)
ApplyPreconditioner_FirstBlock(i, u, acc) ==
  IF i > Len(sub_pks_) THEN acc
  ELSE LET pk_u == SubVector(u, 1)
           pk_Pu == SubVector(acc.out, i)
       IN IF pk_u = Null THEN Throw(acc)
          ELSE IF pk_Pu = Null THEN Throw(acc)
          ELSE ApplyPreconditioner_FirstBlock(i + 1, u,
                 [SubPKCall(acc, i, <<pk_u, pk_Pu>>) EXCEPT
                    !.out[pk_Pu] = SubPK_ApplyPreconditioner(i, u[pk_u])])

RECURSIVE ApplyPreconditioner(_, _, _)
\* MPCStrong::ApplyPreconditioner(u, Pu), the loop from sub-PK i on;
\* acc.out is Pu.
ApplyPreconditioner(i, u, acc) ==
  IF i > Len(sub_pks_) THEN acc
  ELSE LET pk_u == SubVector(u, i)
           pk_Pu == SubVector(acc.out, i)
       IN IF pk_u = Null THEN Throw(acc)
          ELSE IF pk_Pu = Null THEN Throw(acc)
          ELSE ApplyPreconditioner(i + 1, u,
                 [SubPKCall(acc, i, <<pk_u, pk_Pu>>) EXCEPT
                    !.out[pk_Pu] = SubPK_ApplyPreconditioner(i, u[pk_u])])

RECURSIVE ErrorNorm_LastSubPK(_, _, _, _, _)
ErrorNorm_LastSubPK(i, u, du, norms, acc) ==
  IF i > Len(sub_pks_) THEN acc
  ELSE LET pk_u == SubVector(u, i)
           pk_du == SubVector(du, i)
       IN IF pk_u = Null THEN Throw(acc)
          ELSE IF pk_du = Null THEN Throw(acc)
          ELSE ErrorNorm_LastSubPK(i + 1, u, du, norms,
                 [SubPKCall(acc, i, <<pk_u, pk_du>>) EXCEPT !.value = norms[i]])

RECURSIVE ErrorNorm(_, _, _, _, _)
\* MPCStrong::ErrorNorm(u, du), the loop from sub-PK i on; acc.value is
\* norm, norms[i] is what sub-PK i's ErrorNorm returns.
ErrorNorm(i, u, du, norms, acc) ==
  IF i > Len(sub_pks_) THEN acc
  ELSE LET pk_u == SubVector(u, i)
           pk_du == SubVector(du, i)
       IN IF pk_u = Null THEN Throw(acc)
          ELSE IF pk_du = Null THEN Throw(acc)
          ELSE ErrorNorm(i + 1, u, du, norms,
                 [SubPKCall(acc, i, <<pk_u, pk_du>>) EXCEPT
                    !.value = Max(@, norms[i])])

RECURSIVE UpdatePreconditioner(_, _, _)
\* MPCStrong::UpdatePreconditioner(t, up, h), the loop from sub-PK i on.
UpdatePreconditioner(i, up, acc) ==
  IF i > Len(sub_pks_) THEN acc
  ELSE LET pk_up == SubVector(up, i)
       IN IF pk_up = Null THEN Throw(acc)
          ELSE UpdatePreconditioner(i + 1, up, SubPKCall(acc, i, <<pk_up>>))

RECURSIVE IsAdmissibleCalls_AskAll(_, _, _)
\* An IsAdmissible that asks every sub-PK before it answers.
IsAdmissibleCalls_AskAll(i, up, acc) ==
  IF i > Len(sub_pks_) THEN acc
  ELSE LET pk_u == SubVector(up, i)
       IN IF pk_u = Null THEN Throw(acc)
          ELSE IsAdmissibleCalls_AskAll(i + 1, up, SubPKCall(acc, i, <<pk_u>>))

RECURSIVE IsAdmissibleCalls(_, _, _)
\* The sub-PKs MPCStrong::IsAdmissible(u) asks, from sub-PK i on.
IsAdmissibleCalls(i, up, acc) ==
  IF i > Len(sub_pks_) THEN acc
  ELSE LET pk_u == SubVector(up, i)
       IN IF pk_u = Null THEN Throw(acc)
          ELSE IF ~sub_pks_[i].admissible THEN SubPKCall(acc, i, <<pk_u>>)
          ELSE IsAdmissibleCalls(i + 1, up, SubPKCall(acc, i, <<pk_u>>))

RECURSIVE ModifyPredictor_StopsAtFirst(_, _, _, _, _)
\* A ModifyPredictor that returns as soon as a sub-PK has modified.
ModifyPredictor_StopsAtFirst(i, u0, u, answers, acc) ==
  IF i > Len(sub_pks_) \/ acc.flag THEN acc
  ELSE LET pk_u0 == SubVector(u0, i)
           pk_u == SubVector(u, i)
       IN IF pk_u = Null THEN Throw(acc)
          ELSE ModifyPredictor_StopsAtFirst(i + 1, u0, u, answers,
                 [SubPKCall(acc, i, <<pk_u0, pk_u>>) EXCEPT
                    !.flag = @ \/ answers[i]])

RECURSIVE ModifyPredictor(_, _, _, _, _)
\* MPCStrong::ModifyPredictor(h, u0, u), the loop from sub-PK i on;
\* acc.flag is modified, answers[i] is what sub-PK i's ModifyPredictor
\* returns.  pk_u0 is handed on as it is.
ModifyPredictor(i, u0, u, answers, acc) ==
  IF i > Len(sub_pks_) THEN acc
  ELSE LET pk_u0 == SubVector(u0, i)
           pk_u == SubVector(u, i)
       IN IF pk_u = Null THEN Throw(acc)
          ELSE ModifyPredictor(i + 1, u0, u, answers,
                 [SubPKCall(acc, i, <<pk_u0, pk_u>>) EXCEPT
                    !.flag = @ \/ answers[i]])

RECURSIVE ModifyCorrection_LastSubPK(_, _, _, _, _, _)
ModifyCorrection_LastSubPK(i, res, u, du, codes, acc) ==
  IF i > Len(sub_pks_) THEN acc
  ELSE LET pk_u == SubVector(u, i)
           pk_res == SubVector(res, i)
           pk_du == SubVector(du, i)
       IN IF pk_u = Null \/ pk_du = Null THEN Throw(acc)
          ELSE ModifyCorrection_LastSubPK(i + 1, res, u, du, codes,
                 [SubPKCall(acc, i, <<pk_res, pk_u, pk_du>>) EXCEPT
                    !.value = codes[i]])

RECURSIVE ModifyCorrection(_, _, _, _, _, _)
\* MPCStrong::ModifyCorrection(h, res, u, du), the loop from sub-PK i on;
\* acc.value is modified, codes[i] is what sub-PK i's ModifyCorrection
\* returns.  pk_res is handed on as it is.
ModifyCorrection(i, res, u, du, codes, acc) ==
  IF i > Len(sub_pks_) THEN acc
  ELSE LET pk_u == SubVector(u, i)
           pk_res == SubVector(res, i)
           pk_du == SubVector(du, i)
       IN IF pk_u = Null \/ pk_du = Null THEN Throw(acc)
          ELSE ModifyCorrection(i + 1, res, u, du, codes,
                 [SubPKCall(acc, i, <<pk_res, pk_u, pk_du>>) EXCEPT
                    !.value = Max(@, codes[i])])

\* The composite inside a time step, where the time integrator calls these
\* operations: set_dt(0.5) has been called; the sub-PKs differ in their
\* answer to IsAdmissible only.
InitDelegate ==
  /\ sub_pks_ \in {pks \in SubPKLists : \A i \in DOMAIN pks : pks[i].dt = 5}
  /\ dt_ = 5
  /\ ret = NoRet
  /\ InitPKs
  /\ data_ = << >>
  /\ derivs_ = << >>
  /\ access = NoAccess
  /\ requests_ = [k \in Fields |-> {}]
  /\ deriv_requests_ = [k \in Fields |-> {}]
  /\ evals = [k \in Fields |-> 0]
  /\ dirty = {}
  /\ served = {}
  /\ nChanges = 0
  /\ nCalls = 0
  /\ lastCall = NoCall

\* What the caller sees of a delegating call.
Returned(op, args, results, r) ==
  /\ ret' = [NoRet EXCEPT !.op = op, !.status = r.status, !.args = args,
                          !.results = results, !.calls = r.calls,
                          !.out = r.out, !.value = r.value, !.flag = r.flag]
  /\ UNCHANGED <<sub_pks_, dt_, stateVars, evaluatorVars, pkVars>>

\* pk->Functional(t_old, t_new, u_old, u_new, g)
CallFunctional(u_old, u_new, g) ==
  Returned("Functional", <<u_old, RCP(u_new), RCP(g)>>, << >>,
           Functional(1, u_old, u_new, Delegated(g, 0, FALSE)))

\* pk->ApplyPreconditioner(u, Pu)
CallApplyPreconditioner(u, Pu) ==
  Returned("ApplyPreconditioner", <<RCP(u), RCP(Pu)>>, << >>,
           ApplyPreconditioner(1, u, Delegated(Pu, 0, FALSE)))

\* norm = pk->ErrorNorm(u, du): norm = 0.0 before the loop.
CallErrorNorm(u, du, norms) ==
  Returned("ErrorNorm", <<RCP(u), RCP(du)>>, norms,
           ErrorNorm(1, u, du, norms, Delegated(<< >>, 0, FALSE)))

\* pk->UpdatePreconditioner(t, up, h)
CallUpdatePreconditioner(up) ==
  Returned("UpdatePreconditioner", <<RCP(up)>>, << >>,
           UpdatePreconditioner(1, up, Delegated(<< >>, 0, FALSE)))

\* modified = pk->ModifyPredictor(h, u0, u): modified = false before the loop.
CallModifyPredictor(u0, u, answers) ==
  Returned("ModifyPredictor", <<RCP(u0), RCP(u)>>, answers,
           ModifyPredictor(1, u0, u, answers, Delegated(<< >>, 0, FALSE)))

\* modified = pk->ModifyCorrection(h, res, u, du): modified =
\* CORRECTION_NOT_MODIFIED before the loop.
CallModifyCorrection(res, u, du, codes) ==
  Returned("ModifyCorrection", <<RCP(res), RCP(u), RCP(du)>>, codes,
           ModifyCorrection(1, res, u, du, codes,
                            Delegated(<< >>, CORRECTION_NOT_MODIFIED, FALSE)))

\* ok = pk->IsAdmissible(u), with the sub-PKs it asked.
CallIsAdmissibleOn(u, garbage) ==
  /\ IsAdmissible(1, Len(u)) = "end" \/ ~garbage
  /\ ret' = [IsAdmissibleReturned(Len(u), garbage) EXCEPT
               !.calls = IsAdmissibleCalls(1, u, Delegated(<< >>, 0, FALSE)).calls]
  /\ UNCHANGED <<sub_pks_, dt_, stateVars, evaluatorVars, pkVars>>

\* A delegating call leaves the composite as it met it: every call is made
\* on the composite as InitDelegate has it.
NextDelegate ==
  \/ /\ ret.op = "none"
     /\ \E u_old \in {NullRCP} \cup {RCP(v) : v \in TreeShapes},
           u_new \in TreeVectors, g \in TreeShapes :
             CallFunctional(u_old, u_new, g)
  \/ /\ ret.op = "none"
     /\ \E u \in TreeVectors, Pu \in TreeShapes : CallApplyPreconditioner(u, Pu)
  \/ /\ ret.op = "none"
     /\ \E u \in TreeShapes, du \in TreeShapes,
           norms \in [1..Len(sub_pks_) -> Norms] : CallErrorNorm(u, du, norms)
  \/ /\ ret.op = "none"
     /\ \E up \in TreeShapes : CallUpdatePreconditioner(up)
  \/ /\ ret.op = "none"
     /\ \E u0 \in TreeShapes, u \in TreeShapes,
           answers \in [1..Len(sub_pks_) -> BOOLEAN] :
             CallModifyPredictor(u0, u, answers)
  \/ /\ ret.op = "none"
     /\ \E res \in TreeShapes, u \in TreeShapes, du \in TreeShapes,
           codes \in [1..Len(sub_pks_) -> ModifyCorrectionResults] :
             CallModifyCorrection(res, u, du, codes)
  \/ /\ ret.op = "none"
     /\ \E u \in TreeShapes, garbage \in BOOLEAN : CallIsAdmissibleOn(u, garbage)

SpecDelegate == InitDelegate /\ [][NextDelegate]_vars

\* The tree vectors passed to the last call; a null pointer is none.
TreeArgs == {ret.args[k].v : k \in {j \in DOMAIN ret.args : ~ret.args[j].null}}

\* The sub-PKs the last call reached, in order.
CalledPKs == [k \in DOMAIN ret.calls |-> ret.calls[k].pk]

\* Sub-PK i was called, once, for every i, with sub-vector i of each of the
\* nargs tree vectors.
EachSubPKOnItsBlock(nargs) ==
  ret.calls = [i \in 1..Len(sub_pks_) |->
                 [pk |-> i, sub |-> [k \in 1..nargs |-> i]]]

\* C11: Functional with a tree vector whose number of sub-vectors differs
\* from the number of sub-PKs, in either direction, raises "vector structure
\* does not match PK structure".
C11_FunctionalRejectsMismatch ==
  (ret.op = "Functional" /\ \E v \in TreeArgs : Len(v) # Len(sub_pks_)) =>
    ret.status = StructureError

\* The delegating operations of the composite.
DelegatingOps ==
  {"Functional", "ApplyPreconditioner", "UpdatePreconditioner", "ErrorNorm",
   "IsAdmissible", "ModifyPredictor", "ModifyCorrection"}

\* The first sub-PK for which some tree vector passed has no sub-vector.
FirstMissing ==
  CHOOSE i \in 1..(Len(sub_pks_) + 1) :
    /\ i <= Len(sub_pks_) => \E v \in TreeArgs : Len(v) < i
    /\ \A j \in 1..(i - 1) : \A v \in TreeArgs : Len(v) >= j

\* C12: a delegating operation raises the structure-mismatch error whenever
\* one of its tree-vector arguments has no sub-vector for some sub-PK i, and
\* sub-PK i has not been called by then; u0 of ModifyPredictor and res of
\* ModifyCorrection included.
C12_MissingSubVectorRejected ==
  (ret.op \in DelegatingOps /\ FirstMissing <= Len(sub_pks_)) =>
    /\ ret.status = StructureError
    /\ \A k \in DOMAIN ret.calls : ret.calls[k].pk < FirstMissing

\* C14: the composite error norm is the maximum of the sub-PKs' norms, every
\* sub-PK asked once on its own sub-vectors: not smaller than any sub-PK's
\* norm, and 0 for a composite without sub-PKs.
C14_ErrorNormIsMax ==
  (ret.op = "ErrorNorm" /\ ret.status = "ok") =>
    /\ EachSubPKOnItsBlock(2)
    /\ \A i \in 1..Len(sub_pks_) : ret.value >= ret.results[i]
    /\ Len(sub_pks_) > 0 => \E i \in 1..Len(sub_pks_) : ret.value = ret.results[i]
    /\ Len(sub_pks_) = 0 => ret.value = 0

C14_Witness ==
  /\ ret.op = "ErrorNorm" /\ ret.status = "ok"
  /\ Len(sub_pks_) = 3
  /\ ret.results = <<1, 2, 0>>
  /\ ret.value = 2

\* C15: composite ModifyCorrection returns the strongest code its sub-PKs
\* returned, CORRECTION_NOT_MODIFIED without sub-PKs; the result depends on
\* the set of codes only, not on their order, and every sub-PK is applied to
\* its own sub-vectors whatever the sub-PKs before it returned.
C15_ModifyCorrectionIsJoin ==
  (ret.op = "ModifyCorrection" /\ ret.status = "ok") =>
    LET returned == {ret.results[i] : i \in 1..Len(sub_pks_)}
                      \cup {CORRECTION_NOT_MODIFIED}
    IN /\ ret.value \in returned
       /\ \A c \in returned : ret.value >= c
       /\ CalledPKs = [i \in 1..Len(sub_pks_) |-> i]
       /\ \A i \in 1..Len(sub_pks_) :
            /\ ret.calls[i].sub[2] = i
            /\ ret.calls[i].sub[3] = i
            /\ ret.calls[i].sub[1] = SubVector(ret.args[1].v, i)

C15_Witness ==
  /\ ret.op = "ModifyCorrection" /\ ret.status = "ok"
  /\ Len(sub_pks_) = 3
  /\ ret.results = <<2, 0, 1>>
  /\ ret.value = 2
  /\ Len(ret.calls) = 3

\* C16: ApplyPreconditioner(u, Pu) is block diagonal: sub-PK i is called with
\* sub-vector i of u and sub-vector i of Pu, block i of Pu is what sub-PK i
\* makes of block i of u, the sub-vectors of Pu beyond the sub-PKs keep
\* their values, and u is read only.
C16_PreconditionerBlockDiagonal ==
  (ret.op = "ApplyPreconditioner" /\ ret.status = "ok") =>
    LET u == ret.args[1].v
        Pu == ret.args[2].v
    IN /\ EachSubPKOnItsBlock(2)
       /\ Len(ret.out) = Len(Pu)
       /\ \A i \in 1..Len(Pu) :
            ret.out[i] = IF i <= Len(sub_pks_)
                           THEN SubPK_ApplyPreconditioner(i, u[i])
                           ELSE Pu[i]

C16_Witness ==
  /\ ret.op = "ApplyPreconditioner" /\ ret.status = "ok"
  /\ Len(sub_pks_) = 2
  /\ ret.args[1].v = <<1, 2, 1>>
  /\ ret.out = <<21, 42, 1>>

\* The first sub-PK that reports inadmissible; Len(sub_pks_) + 1 if none.
FirstInadmissible ==
  IF \A i \in 1..Len(sub_pks_) : sub_pks_[i].admissible
    THEN Len(sub_pks_) + 1
    ELSE CHOOSE i \in 1..Len(sub_pks_) :
           /\ ~sub_pks_[i].admissible
           /\ \A j \in 1..(i - 1) : sub_pks_[j].admissible

\* C30: composite IsAdmissible short-circuits.  The sub-PKs are asked in
\* index order, each on its own sub-vector; once sub-PK i reports inadmissible
\* the composite returns false and no sub-PK j > i is asked, nor is a
\* sub-vector extracted for it.
C30_IsAdmissibleShortCircuits ==
  ret.op = "IsAdmissible" =>
    /\ \A k \in DOMAIN ret.calls :
          /\ ret.calls[k].pk = k
          /\ ret.calls[k].sub = <<SubVector(ret.args[1].v, k)>>
          /\ k <= FirstInadmissible
    /\ (FirstInadmissible <= Len(sub_pks_)
          /\ FirstInadmissible <= Len(ret.args[1].v)) =>
          /\ ret.status = "ok" /\ ~ret.flag /\ ~ret.fallThrough
          /\ Len(ret.calls) = FirstInadmissible

\* C30 witness: three sub-PKs on a vector of three sub-vectors, the second
\* inadmissible and the third admissible: two sub-PKs asked, false returned.
C30_Witness ==
  /\ ret.op = "IsAdmissible"
  /\ Len(sub_pks_) = 3 /\ Len(ret.args[1].v) = 3
  /\ sub_pks_[1].admissible /\ ~sub_pks_[2].admissible /\ sub_pks_[3].admissible
  /\ CalledPKs = <<1, 2>>
  /\ ret.status = "ok" /\ ~ret.flag

\* C37: composite ModifyPredictor calls the ModifyPredictor of every sub-PK
\* once, in order, on the sub-PK's own sub-vector of u (and sub-vector of u0
\* as the tree vector gives it), whatever the sub-PKs before it answered, and
\* returns true exactly when some sub-PK answered true: false without
\* sub-PKs.
C37_ModifyPredictorIsDisjunction ==
  (ret.op = "ModifyPredictor" /\ ret.status = "ok") =>
    /\ CalledPKs = [i \in 1..Len(sub_pks_) |-> i]
    /\ \A i \in 1..Len(sub_pks_) :
          ret.calls[i].sub = <<SubVector(ret.args[1].v, i), i>>
    /\ ret.flag = (\E i \in 1..Len(sub_pks_) : ret.results[i])
    /\ Len(sub_pks_) = 0 => ~ret.flag

\* C37 witness: the first of three sub-PKs modifies, the other two do not
\* and are called all the same.
C37_Witness ==
  /\ ret.op = "ModifyPredictor" /\ ret.status = "ok"
  /\ Len(sub_pks_) = 3
  /\ ret.results = <<TRUE, FALSE, FALSE>>
  /\ Len(ret.calls) = 3
  /\ ret.calls[3] = [pk |-> 3, sub |-> <<3, 3>>]
  /\ ret.flag

\* C38: composite Functional is not atomic under a structure error.  The
\* sub-PKs are called in index order; when the error is raised for sub-PK i
\* the blocks of g of the sub-PKs before i have been written by their
\* Functional, sub-PK i and those after it have not been called and their
\* blocks of g are as they were; a null u_old is accepted and every sub-PK
\* gets a null old sub-vector.
C38_FunctionalNotAtomic ==
  ret.op = "Functional" =>
    LET u_new == ret.args[2].v
        g == ret.args[3].v
        called == Len(ret.calls)
    IN /\ CalledPKs = [k \in 1..called |-> k]
       /\ ret.status = StructureError =>
             called = FirstMissing - 1 /\ called < Len(sub_pks_)
       /\ ret.status = "ok" => called = Len(sub_pks_)
       /\ Len(ret.out) = Len(g)
       /\ \A i \in 1..Len(g) :
             ret.out[i] = IF i <= called THEN SubPK_Functional(i, u_new[i])
                                         ELSE g[i]
       /\ ret.args[1].null =>
             /\ \A k \in 1..called : ret.calls[k].sub = <<Null, k, k>>
             /\ (Len(u_new) >= Len(sub_pks_) /\ Len(g) >= Len(sub_pks_)) =>
                   ret.status = "ok"

\* C38 witness: three sub-PKs, a null u_old, u_new of two sub-vectors and g
\* of three: the error is raised for the third sub-PK when two blocks of g
\* have been written, and the third block is as it was.
C38_Witness ==
  /\ ret.op = "Functional" /\ ret.status = StructureError
  /\ Len(sub_pks_) = 3
  /\ ret.args[1].null
  /\ ret.args[2].v = <<2, 1>>
  /\ ret.args[3].v = <<1, 1, 1>>
  /\ Len(ret.calls) = 2
  /\ ret.out = <<12, 21, 1>>

(***************************************************************************)
(* Specification SpecTree: a tree of PKs under a top-level MPCStrong, set   *)
(* up and initialized as the time-stepping loop does.  Node 1 is the top;  *)
(* a node's sub-PKs are the nodes that name it as parent, in index order;  *)
(* a node with sub-PKs is an MPCStrong, a node without is a leaf PK.       *)
(***************************************************************************)
\* A PK of the tree: its place, its "strongly coupled PK" parameter, the
\* leaves whose primary variables its solution_ holds, its time integrator
\* and the vector it was built over, its dt_.
TreeNode(parent, composite, dt) ==
  [parent |-> parent, composite |-> composite, strongly_coupled |-> FALSE,
   setup |-> FALSE, initialized |-> FALSE, solution_ |-> {},
   time_stepper_ |-> [created |-> FALSE, x |-> {}], dt_ |-> dt]

\* The trees of at most MaxNodes PKs.
PKTreeShapes ==
  UNION {{p \in [1..n -> 0..(n - 1)] :
            /\ p[1] = 0
            /\ \A i \in 2..n : p[i] >= 1 /\ p[i] < i} : n \in 1..MaxNodes}

Trees ==
  {[i \in DOMAIN p |->
      TreeNode(p[i], i = 1 \/ \E c \in DOMAIN p : p[c] = i, dt)] :
     p \in PKTreeShapes, dt \in IndeterminateDt}

InitTree ==
  /\ pk_tree_ \in {[NoTree EXCEPT !.nodes = t, !.phase = "built"] : t \in Trees}
  /\ vis = NoVis
  /\ sub_pks_ = << >>
  /\ dt_ = 0
  /\ ret = NoRet
  /\ time_stepper_ = NoStepper
  /\ driver = NoDriver
  /\ sw = NoSW
  /\ tensor = NoTensor
  /\ life = NoLife
  /\ data_ = << >>
  /\ derivs_ = << >>
  /\ access = NoAccess
  /\ requests_ = [k \in Fields |-> {}]
  /\ deriv_requests_ = [k \in Fields |-> {}]
  /\ evals = [k \in Fields |-> 0]
  /\ dirty = {}
  /\ served = {}
  /\ nChanges = 0
  /\ nCalls = 0
  /\ lastCall = NoCall

\* What PK pk did, appended to the record of the calls.
Logged(T, ev, pk) == [T EXCEPT !.log = Append(@, <<ev, pk>>)]

\* A Setup that leaves the sub-PK lists as they are.
FlagSubPKs_None(T, i) == Logged(T, "flag", i)

\* MPCStrong::Setup, the loop over pk_tree_: "strongly coupled PK" = true in
\* the list of every sub-PK.
FlagSubPKs(T, i) ==
  Logged([T EXCEPT !.nodes = [c \in DOMAIN @ |->
                                IF @[c].parent = i
                                  THEN [@[c] EXCEPT !.strongly_coupled = TRUE]
                                  ELSE @[c]]],
         "flag", i)

RECURSIVE MPCStrong_Setup(_, _), PK_Setup(_, _), MPC_PK_SetupSubPKs(_, _, _)
\* MPCStrong::Setup(): flag the sub-PK lists, MPC_PK::Setup(),
\* dt_ = get_dt().
MPCStrong_Setup(T, i) ==
  LET entered == Logged(T, "Setup", i)
      flagged == FlagSubPKs(entered, i)
      subs == MPC_PK_SetupSubPKs(flagged, i, 1)
      own == Logged([subs EXCEPT !.nodes[i].dt_ = subs.nodes[i].dt_], "dt_", i)
  IN Logged([own EXCEPT !.nodes[i].setup = TRUE], "SetupDone", i)

\* pk->Setup() of any PK of the tree.
PK_Setup(T, i) ==
  IF T.nodes[i].composite
    THEN MPCStrong_Setup(T, i)
    ELSE Logged([Logged(T, "Setup", i) EXCEPT !.nodes[i].setup = TRUE],
                "SetupDone", i)

\* MPC_PK::Setup(): the Setup() of every sub-PK, in the order of sub_pks_.
MPC_PK_SetupSubPKs(T, i, c) ==
  IF c > Len(T.nodes) THEN T
  ELSE IF T.nodes[c].parent = i
    THEN MPC_PK_SetupSubPKs(PK_Setup(T, c), i, c + 1)
    ELSE MPC_PK_SetupSubPKs(T, i, c + 1)

RECURSIVE MPCStrong_Initialize(_, _), PK_Initialize(_, _),
          MPC_PK_InitializeSubPKs(_, _, _)
\* An Initialize that builds the time integrator before the sub-PKs are
\* initialized.
MPCStrong_Initialize_StepperFirst(T, i) ==
  LET entered == Logged(T, "Initialize", i)
      stepper ==
        IF ~entered.nodes[i].strongly_coupled
          THEN Logged(Logged([entered EXCEPT !.nodes[i].time_stepper_ =
                                [created |-> TRUE, x |-> entered.nodes[i].solution_]],
                             "time_stepper_", i),
                      "SetInitialState", i)
          ELSE entered
      subs == MPC_PK_InitializeSubPKs(stepper, i, 1)
      filled == Logged([subs EXCEPT !.nodes[i].solution_ =
                          UNION {subs.nodes[c].solution_ :
                                   c \in {k \in DOMAIN subs.nodes :
                                            subs.nodes[k].parent = i}}],
                       "solution_", i)
  IN Logged([filled EXCEPT !.nodes[i].initialized = TRUE], "InitializeDone", i)

\* MPCStrong::Initialize(): MPC_PK::Initialize() initializes the sub-PKs
\* and puts their primary variables into solution_; then, unless this PK's
\* own list says "strongly coupled PK", the time integrator is built over
\* solution_ and given its initial state.
MPCStrong_Initialize(T, i) ==
  LET entered == Logged(T, "Initialize", i)
      subs == MPC_PK_InitializeSubPKs(entered, i, 1)
      filled == Logged([subs EXCEPT !.nodes[i].solution_ =
                          UNION {subs.nodes[c].solution_ :
                                   c \in {k \in DOMAIN subs.nodes :
                                            subs.nodes[k].parent = i}}],
                       "solution_", i)
      stepper ==
        IF ~filled.nodes[i].strongly_coupled
          THEN Logged(Logged([filled EXCEPT !.nodes[i].time_stepper_ =
                                [created |-> TRUE, x |-> filled.nodes[i].solution_]],
                             "time_stepper_", i),
                      "SetInitialState", i)
          ELSE filled
  IN Logged([stepper EXCEPT !.nodes[i].initialized = TRUE], "InitializeDone", i)

\* pk->Initialize() of any PK of the tree; a leaf's solution_ is its own
\* primary variable.
PK_Initialize(T, i) ==
  IF T.nodes[i].composite
    THEN MPCStrong_Initialize(T, i)
    ELSE Logged([Logged(T, "Initialize", i) EXCEPT
                   !.nodes[i].initialized = TRUE, !.nodes[i].solution_ = {i}],
                "InitializeDone", i)

\* MPC_PK::Initialize(): the Initialize() of every sub-PK, in the order of
\* sub_pks_.
MPC_PK_InitializeSubPKs(T, i, c) ==
  IF c > Len(T.nodes) THEN T
  ELSE IF T.nodes[c].parent = i
    THEN MPC_PK_InitializeSubPKs(PK_Initialize(T, c), i, c + 1)
    ELSE MPC_PK_InitializeSubPKs(T, i, c + 1)

treeUnchanged ==
  <<stateVars, evaluatorVars, mpcVars, time_stepper_, driver, sw, tensor, life,
    vis>>

\* pk->Setup() on the top-level PK.
CallTreeSetup ==
  /\ pk_tree_.phase = "built"
  /\ pk_tree_' = [MPCStrong_Setup(pk_tree_, 1) EXCEPT !.phase = "setup"]
  /\ UNCHANGED treeUnchanged

\* pk->Initialize() on the top-level PK, after Setup().
CallTreeInitialize ==
  /\ pk_tree_.phase = "setup"
  /\ pk_tree_' = [MPCStrong_Initialize(pk_tree_, 1) EXCEPT !.phase = "initialized"]
  /\ UNCHANGED treeUnchanged

NextTree ==
  \/ CallTreeSetup
  \/ CallTreeInitialize

SpecTree == InitTree /\ [][NextTree]_vars

\* The sub-PKs of PK i, the composites, the leaves.
SubPKsOf(i) == {c \in DOMAIN pk_tree_.nodes : pk_tree_.nodes[c].parent = i}
Composites == {i \in DOMAIN pk_tree_.nodes : pk_tree_.nodes[i].composite}
Leaves == DOMAIN pk_tree_.nodes \ Composites

\* The PKs that hold a time integrator.
Integrators == {i \in DOMAIN pk_tree_.nodes : pk_tree_.nodes[i].time_stepper_.created}

\* C34: in a tree of strongly coupled composites, Setup() flags the list of
\* every sub-PK "strongly coupled PK" and of no other PK; after Initialize()
\* there is one time integrator, it belongs to the top-level composite and is
\* built over the solution of every leaf; no nested composite has one, and
\* nobody has one before Initialize().
C34_OneIntegratorAtTheTop ==
  /\ pk_tree_.phase \in {"setup", "initialized"} =>
       \A i \in DOMAIN pk_tree_.nodes :
          pk_tree_.nodes[i].strongly_coupled = (i # 1)
  /\ pk_tree_.phase \in {"built", "setup"} => Integrators = {}
  /\ pk_tree_.phase = "initialized" =>
       /\ Integrators = {1}
       /\ pk_tree_.nodes[1].time_stepper_.x = Leaves
       /\ \A i \in DOMAIN pk_tree_.nodes :
             pk_tree_.nodes[i].time_stepper_.created =
               ~pk_tree_.nodes[i].strongly_coupled
       /\ Cardinality({k \in DOMAIN pk_tree_.log :
                         pk_tree_.log[k][1] = "time_stepper_"}) = 1

\* C34 witness: a composite nested in a composite nested in the top-level
\* one; only the top-level one holds an integrator.
C34_Witness ==
  /\ pk_tree_.phase = "initialized"
  /\ \E i, j \in Composites : i # 1 /\ pk_tree_.nodes[j].parent = i
  /\ Integrators = {1}
  /\ \A i \in Composites \ {1} : pk_tree_.nodes[i].initialized

\* Where in the record of the calls PK pk did ev; 0 if it never did.
At(ev, pk) ==
  IF \E k \in DOMAIN pk_tree_.log : pk_tree_.log[k] = <<ev, pk>>
    THEN CHOOSE k \in DOMAIN pk_tree_.log : pk_tree_.log[k] = <<ev, pk>>
    ELSE 0

\* Nothing is done twice.
Once ==
  \A k, l \in DOMAIN pk_tree_.log : pk_tree_.log[k] = pk_tree_.log[l] => k = l

\* C35: Setup and Initialize of a composite run the sub-PKs first and the
\* composite's own work last.  In Setup the sub-PK lists are flagged before
\* any sub-PK's Setup begins, the sub-PKs are set up one after the other in
\* the order of sub_pks_, and the composite sets its dt_ when the last has
\* returned.  In Initialize every sub-PK has been initialized and solution_
\* filled before the time integrator is built and given its initial state.
C35_SubPKsFirst ==
  /\ Once
  /\ pk_tree_.phase \in {"setup", "initialized"} =>
       \A i \in Composites :
          /\ At("Setup", i) > 0 /\ At("Setup", i) < At("flag", i)
          /\ At("flag", i) < At("dt_", i)
          /\ At("dt_", i) < At("SetupDone", i)
          /\ \A c \in SubPKsOf(i) :
                /\ At("flag", i) < At("Setup", c)
                /\ At("Setup", c) < At("SetupDone", c)
                /\ At("SetupDone", c) < At("dt_", i)
                /\ \A d \in SubPKsOf(i) : c < d => At("SetupDone", c) < At("Setup", d)
  /\ pk_tree_.phase = "initialized" =>
       /\ \A i \in Composites :
             /\ At("Initialize", i) > 0
             /\ At("solution_", i) < At("InitializeDone", i)
             /\ \A c \in SubPKsOf(i) :
                   /\ At("Initialize", i) < At("Initialize", c)
                   /\ At("Initialize", c) < At("InitializeDone", c)
                   /\ At("InitializeDone", c) < At("solution_", i)
                   /\ \A d \in SubPKsOf(i) :
                         c < d => At("InitializeDone", c) < At("Initialize", d)
       /\ \A c \in DOMAIN pk_tree_.nodes \ {1} :
             At("InitializeDone", c) < At("time_stepper_", 1)
       /\ At("solution_", 1) < At("time_stepper_", 1)
       /\ At("time_stepper_", 1) + 1 = At("SetInitialState", 1)
       /\ At("SetupDone", 1) < At("Initialize", 1)

\* C35 witness: a top-level composite over a leaf and a nested composite of
\* two leaves, set up and initialized; the integrator was built last.
C35_Witness ==
  /\ pk_tree_.phase = "initialized"
  /\ \E i \in Composites \ {1} : Cardinality(SubPKsOf(i)) = 2
  /\ Cardinality(SubPKsOf(1)) = 2
  /\ Len(pk_tree_.nodes) = 5
  /\ At("SetInitialState", 1) + 1 = At("InitializeDone", 1)
  /\ At("InitializeDone", 1) = Len(pk_tree_.log)

(***************************************************************************)
(* Specification SpecDriver: a time period of the time-stepping loop over  *)
(* the top-level composite.  Times and timesteps are whole numbers of the  *)
(* smallest timestep the loop can reach.                                   *)
(***************************************************************************)
\* "end period time" and "initial time step" of the time period; the period
\* starts at time 0.
PeriodEnds == {12, 20}

InitialTimeSteps == {8}

\* Consecutive failed steps after which the loop gives up.
MaxFails == 3

\* The largest timestep the integrator proposes.
LargestDt == 8

\* BDF1_TI::TimeStep(dt, dt_next, x): the step fails and the integrator
\* proposes half the timestep, or it succeeds and the integrator proposes
\* the same timestep, twice as much, or, after a hard solve, half of it.
\* A step of the smallest timestep succeeds.
BDF1_TimeStep(dt) ==
  (IF dt \div 2 >= 1 THEN {[fail |-> TRUE, dt_next |-> dt \div 2]} ELSE {})
    \cup {[fail |-> FALSE, dt_next |-> d] :
            d \in {dt, IF 2 * dt <= LargestDt THEN 2 * dt ELSE dt,
                   IF dt \div 2 >= 1 THEN dt \div 2 ELSE dt}}

\* BDF1_TI::CommitSolution(h, x): the integrator's solution history moves
\* on by h.
CommitSolution(h) == [time_stepper_ EXCEPT !.t = @ + h]

\* MPCStrong::Initialize(): the sub-PKs are initialized, and a composite that
\* is not flagged "strongly coupled PK" creates its time integrator at the
\* time of State.
Initialize(strongly_coupled, time) ==
  IF ~strongly_coupled THEN [created |-> TRUE, t |-> time] ELSE time_stepper_

AdvanceStep_CommitsAlways(t_old, t_new, ts) ==
  [fail |-> ts.fail, stepper |-> CommitSolution(dt_), commits |-> 1,
   dt |-> ts.dt_next]

AdvanceStep_KeepsDt(t_old, t_new, ts) ==
  IF ~ts.fail
    THEN [fail |-> ts.fail, stepper |-> CommitSolution(dt_), commits |-> 1,
          dt |-> ts.dt_next]
    ELSE [fail |-> ts.fail, stepper |-> time_stepper_, commits |-> 0, dt |-> dt_]

\* MPCStrong::AdvanceStep(t_old, t_new), ts being what
\* time_stepper_->TimeStep(dt_, dt_solver, solution_) answers: the flag
\* returned, the integrator, the CommitSolution calls made, the new dt_.
AdvanceStep(t_old, t_new, ts) ==
  LET fail == ts.fail
      dt_solver == ts.dt_next
  IN IF ~fail
       THEN [fail |-> fail, stepper |-> CommitSolution(dt_), commits |-> 1,
             dt |-> IF dt_solver < dt_ /\ dt_solver >= dt_ THEN dt_ ELSE dt_solver]
       ELSE [fail |-> fail, stepper |-> time_stepper_, commits |-> 0,
             dt |-> dt_solver]

\* The composite as constructed, the loop at the start of the period.
InitDriver ==
  /\ sub_pks_ \in {pks \in SubPKLists :
                     /\ Len(pks) = 2
                     /\ \A i \in DOMAIN pks : pks[i].dt = 5 /\ pks[i].admissible}
  /\ dt_ \in IndeterminateDt
  /\ ret = NoRet
  /\ time_stepper_ = NoStepper
  /\ driver \in {[NoDriver EXCEPT !.phase = "setup", !.t_end = e] : e \in PeriodEnds}
  /\ sw = NoSW
  /\ tensor = NoTensor
  /\ life = NoLife
  /\ pk_tree_ = NoTree
  /\ vis = NoVis
  /\ data_ = << >>
  /\ derivs_ = << >>
  /\ access = NoAccess
  /\ requests_ = [k \in Fields |-> {}]
  /\ deriv_requests_ = [k \in Fields |-> {}]
  /\ evals = [k \in Fields |-> 0]
  /\ dirty = {}
  /\ served = {}
  /\ nChanges = 0
  /\ nCalls = 0
  /\ lastCall = NoCall

\* The loop before the first step: pk->Setup(), pk->Initialize(),
\* pk->set_dt(initial time step).
DriverSetup(dt0) ==
  /\ driver.phase = "setup"
  /\ sub_pks_' = MPC_PK_Setup([i \in DOMAIN sub_pks_ |->
                                 [sub_pks_[i] EXCEPT !.strongly_coupled = TRUE]])
  /\ time_stepper_' = Initialize(FALSE, driver.t)
  /\ dt_' = dt0
  /\ ret' = [NoRet EXCEPT !.op = "set_dt", !.dt = dt0]
  /\ driver' = [driver EXCEPT !.phase = "run", !.dt = dt0]
  /\ UNCHANGED <<stateVars, evaluatorVars, sw, setupVars>>

\* One turn of the loop: dt = min(pk->get_dt(), end of period - t),
\* fail = pk->AdvanceStep(t, t + dt); after a success time moves on and the
\* failures are forgotten, after a failure the step is tried again from the
\* same time, and MaxFails failures in a row end the run.
DriverStep(ts) ==
  /\ driver.phase = "run"
  /\ time_stepper_.created
  /\ LET dt == IF get_dt <= driver.t_end - driver.t THEN get_dt
                                                     ELSE driver.t_end - driver.t
         r == AdvanceStep(driver.t, driver.t + dt, ts)
     IN /\ dt_' = r.dt
        /\ time_stepper_' = r.stepper
        /\ ret' = [NoRet EXCEPT !.op = "AdvanceStep", !.flag = r.fail,
                                !.t_old = driver.t, !.t_new = driver.t + dt,
                                !.dt = r.stepper.t - time_stepper_.t,
                                !.value = r.commits, !.results = <<ts>>]
        /\ driver' =
             IF ~r.fail
               THEN [driver EXCEPT !.t = @ + dt, !.dt = dt, !.nfail = 0,
                                   !.phase = IF driver.t + dt >= driver.t_end
                                               THEN "done" ELSE "run"]
               ELSE [driver EXCEPT !.dt = dt, !.nfail = @ + 1,
                                   !.phase = IF driver.nfail + 1 >= MaxFails
                                               THEN "aborted" ELSE "run"]
  /\ UNCHANGED <<sub_pks_, stateVars, evaluatorVars, sw, setupVars>>

NextDriver ==
  \/ \E dt0 \in InitialTimeSteps : DriverSetup(dt0)
  \/ \E ts \in BDF1_TimeStep(dt_) : DriverStep(ts)

SpecDriver == InitDriver /\ [][NextDriver]_vars /\ WF_vars(NextDriver)

\* C17: AdvanceStep returns the failure flag the time integrator answered
\* and ends by returning, failure or not; it calls CommitSolution once after
\* a success and not at all after a failure.
C17_AdvanceStepReturnsIntegratorFlag ==
  ret.op = "AdvanceStep" =>
    /\ ret.status = "ok"
    /\ ret.flag = ret.results[1].fail
    /\ ret.value = IF ret.results[1].fail THEN 0 ELSE 1
    /\ ret.flag => ret.dt = 0

C17_Witness ==
  /\ ret.op = "AdvanceStep"
  /\ ret.flag /\ ret.results[1].fail
  /\ ret.value = 0
  /\ time_stepper_.t > 0

\* A step of the loop in which AdvanceStep failed.
FailedStep == driver' # driver /\ ret'.op = "AdvanceStep" /\ ret'.flag

\* C18: after a failed AdvanceStep the loop stays at the same time, nothing
\* is committed and the composite's timestep is strictly smaller for the
\* retry; MaxFails failures in a row end the run, there are never more, and
\* every period comes to its end time or to the end of the run.
C18_FailedStepRetriedSmaller ==
  /\ [][FailedStep =>
          /\ driver'.t = driver.t
          /\ time_stepper_' = time_stepper_
          /\ dt_' < dt_
          /\ dt_' >= 1
          /\ driver'.nfail = driver.nfail + 1
          /\ driver'.phase = IF driver'.nfail = MaxFails THEN "aborted" ELSE "run"]_vars
  /\ [](driver.nfail <= MaxFails)
  /\ [](driver.phase = "done" => driver.t = driver.t_end)
  /\ <>(driver.phase \in {"done", "aborted"})

C18_Witness ==
  /\ driver.phase = "aborted"
  /\ driver.nfail = MaxFails
  /\ driver.t > 0
  /\ dt_ = 1

\* C19: when the loop shortens a step so that t_new is the end of the
\* period, a successful AdvanceStep(t_old, t_new) of the composite moves the
\* solution on by t_new - t_old.
C19_AdvancesByInterval ==
  (ret.op = "AdvanceStep" /\ ~ret.flag) => ret.dt = ret.t_new - ret.t_old

\* C36: after a successful AdvanceStep over an interval shorter than the
\* composite's dt_, get_dt() is not smaller than dt_ was before the step;
\* after a failed step get_dt() is the integrator's proposal.
C36_RecommendationNotReduced ==
  [][(driver' # driver /\ ret'.op = "AdvanceStep") =>
       /\ (~ret'.flag /\ ret'.t_new - ret'.t_old < dt_) => dt_' >= dt_
       /\ ret'.flag => dt_' = ret'.results[1].dt_next]_vars

(***************************************************************************)
(* Specification SpecSW: the shallow-water PK advancing the ponded depth   *)
(* at the interior nodes of its mesh.  Depths, residuals and timesteps are *)
(* whole numbers; the dual cell of every node has volume 1.                *)
(***************************************************************************)
Nodes == {1, 2}

InitialDepths == {1, 2}

\* What the residual distribution hands a node (phi_beta_cell[0]) in the
\* predictor and in the corrector step, and the timesteps the caller takes.
Residuals == {-1, 0, 1}

StepSizes == {1, 2}

\* "cfl" in tenths (the default is 0.1).
CflValues == {5}

\* "number of reduced cfl cycles" (the default is 10).
ReducedCycles == {0, 2}

\* The stable timestep the mesh allows, MinAll over the processes.
StableDts == {1, 3}

\* ShallowWater_PK::ShallowWater_PK: iters_(0), cfl_ and max_iters_ from the
\* PK's list; the depths are those of Initialize().
InitSW ==
  /\ sw \in {[NoSW EXCEPT !.h = h, !.cfl_ = cfl, !.max_iters_ = n] :
               h \in [Nodes -> InitialDepths], cfl \in CflValues,
               n \in ReducedCycles}
  /\ sub_pks_ = << >>
  /\ dt_ = 0
  /\ ret = NoRet
  /\ time_stepper_ = NoStepper
  /\ driver = NoDriver
  /\ tensor = NoTensor
  /\ life = NoLife
  /\ pk_tree_ = NoTree
  /\ vis = NoVis
  /\ data_ = << >>
  /\ derivs_ = << >>
  /\ access = NoAccess
  /\ requests_ = [k \in Fields |-> {}]
  /\ deriv_requests_ = [k \in Fields |-> {}]
  /\ evals = [k \in Fields |-> 0]
  /\ dirty = {}
  /\ served = {}
  /\ nChanges = 0
  /\ nCalls = 0
  /\ lastCall = NoCall

\* ShallowWater_PK::AdvanceStep(t_old, t_new, reinit) on the depth:
\* dt = t_new - t_old, iters_++, failed = false, the predictor and the
\* corrector update of every node, h_n = U_new, return failed.
ShallowWater_AdvanceStep(t_old, t_new, phi_pr, phi_new) ==
  LET dt == t_new - t_old
      failed == FALSE
      dual_cell_vol == 1
      U == sw.h
      U_pr == [i \in Nodes |-> -((dt \div dual_cell_vol) * phi_pr[i]) + U[i]]
      U_new == [i \in Nodes |-> -((dt \div dual_cell_vol) * phi_new[i]) + U_pr[i]]
  IN [h_n |-> U_new, iters_ |-> sw.iters_ + 1, failed |-> failed]

\* failed = pk->AdvanceStep(t, t + dt, false); what the last get_dt()
\* returned to the caller is no longer observed.
CallShallowWaterAdvanceStep(dt, phi_pr, phi_new) ==
  /\ sw.iters_ < MaxSteps
  /\ \E r \in {ShallowWater_AdvanceStep(sw.t, sw.t + dt, phi_pr, phi_new)} :
       sw' = [sw EXCEPT !.h = r.h_n, !.iters_ = r.iters_, !.t = sw.t + dt,
                         !.op = "AdvanceStep", !.failed = r.failed, !.dt = dt,
                         !.dt_min = 0, !.got = 0]
  /\ UNCHANGED <<stateVars, evaluatorVars, mpcVars, time_stepper_, driver,
                 setupVars>>

\* A get_dt that still reduces the factor at iters_ = max_iters_.
ShallowWater_get_dt_OneMore(dt_min) ==
  IF sw.iters_ <= sw.max_iters_
    THEN [factor |-> "reduced", dt |-> sw.cfl_ * dt_min]
    ELSE [factor |-> "regular", dt |-> 10 * sw.cfl_ * dt_min]

\* ShallowWater_PK::get_dt(), dt_min being the stable timestep of the mesh:
\* 0.1 * cfl_ * dt_min while iters_ < max_iters_, cfl_ * dt_min otherwise.
\* With cfl_ in tenths the timestep returned is in hundredths.
ShallowWater_get_dt(dt_min) ==
  IF sw.iters_ < sw.max_iters_
    THEN [factor |-> "reduced", dt |-> sw.cfl_ * dt_min]
    ELSE [factor |-> "regular", dt |-> 10 * sw.cfl_ * dt_min]

\* dt = pk->get_dt(); factors keeps which factors have been used so far.
CallShallowWaterGetDt(dt_min) ==
  /\ LET r == ShallowWater_get_dt(dt_min)
     IN sw' = [sw EXCEPT !.op = "get_dt", !.dt_min = dt_min, !.got = r.dt,
                         !.factors = @ \cup {r.factor}]
  /\ UNCHANGED <<stateVars, evaluatorVars, mpcVars, time_stepper_, driver,
                 setupVars>>

NextSW ==
  \/ \E dt \in StepSizes, phi_pr \in [Nodes -> Residuals],
        phi_new \in [Nodes -> Residuals] :
          CallShallowWaterAdvanceStep(dt, phi_pr, phi_new)
  \/ \E dt_min \in StableDts : CallShallowWaterGetDt(dt_min)

SpecSW == InitSW /\ [][NextSW]_vars

\* C20: the shallow-water AdvanceStep returns failed = true whenever the
\* step leaves a negative depth at a node.
C20_NegativeDepthFails ==
  (sw.op = "AdvanceStep" /\ \E i \in Nodes : sw.h[i] < 0) => sw.failed

\* C39: the shallow-water PK reduces the CFL factor during start-up only.
\* get_dt() returns 0.1 * cfl_ * dt_min while fewer than max_iters_
\* AdvanceStep calls have been made and cfl_ * dt_min after that many; once
\* it has returned the regular timestep it never returns the reduced one.
C39_ReducedCflOnlyAtStartUp ==
  /\ [](sw.op = "get_dt" =>
          sw.got = IF sw.iters_ < sw.max_iters_
                     THEN sw.cfl_ * sw.dt_min
                     ELSE 10 * sw.cfl_ * sw.dt_min)
  /\ [][("regular" \in sw.factors /\ sw'.op = "get_dt") =>
           sw'.got = 10 * sw'.cfl_ * sw'.dt_min]_vars
  /\ [][sw'.iters_ >= sw.iters_ /\ sw'.max_iters_ = sw.max_iters_]_vars

\* C39 witness: two reduced cycles; get_dt() returned the reduced timestep
\* before the second AdvanceStep and returns the regular one after it.
C39_Witness ==
  /\ sw.op = "get_dt"
  /\ sw.max_iters_ = 2 /\ sw.iters_ = 2
  /\ sw.factors = {"reduced", "regular"}
  /\ sw.cfl_ = 5 /\ sw.dt_min = 3
  /\ sw.got = 150

(***************************************************************************)
(* Specification SpecVis: the processes of a run visualizing a domain set. *)
(* Every process holds its own VisualizationDomainSet; a process stops at  *)
(* a collective call until every process of the run has made the call.     *)
(***************************************************************************)
Procs == 1..MaxProcs

\* The subdomains of the domain set and the variables visualized on them;
\* the name of a vector is its subdomain and its variable.
Subdomains == {"column:0", "column:1"}

VarNames == {"pressure", "saturation"}

\* Keys::getVarName
getVarName(name) == name[2]

\* VisualizationDomainSet as constructed on a process: no lifted vector.
NewVis ==
  [lifted_vectors_ |-> {}, at |-> "idle", l_nlifted |-> 0, g_nlifted |-> -1,
   pending |-> {}, written |-> << >>]

InitVis ==
  /\ vis = [p \in Procs |-> NewVis]
  /\ pk_tree_ = NoTree
  /\ sub_pks_ = << >>
  /\ dt_ = 0
  /\ ret = NoRet
  /\ time_stepper_ = NoStepper
  /\ driver = NoDriver
  /\ sw = NoSW
  /\ tensor = NoTensor
  /\ life = NoLife
  /\ data_ = << >>
  /\ derivs_ = << >>
  /\ access = NoAccess
  /\ requests_ = [k \in Fields |-> {}]
  /\ deriv_requests_ = [k \in Fields |-> {}]
  /\ evals = [k \in Fields |-> 0]
  /\ dirty = {}
  /\ served = {}
  /\ nChanges = 0
  /\ nCalls = 0
  /\ lastCall = NoCall

visUnchanged ==
  <<stateVars, evaluatorVars, mpcVars, time_stepper_, driver, sw, tensor, life,
    pk_tree_>>

\* VisualizationDomainSet::WriteVector on process p: the lifted vector of
\* the variable is created if the process has none, and filled.
WriteVector(p, name) ==
  /\ vis[p].at = "idle"
  /\ vis' = [vis EXCEPT ![p].lifted_vectors_ = @ \cup {getVarName(name)}]
  /\ UNCHANGED visUnchanged

\* VisualizationDomainSet::FinalizeTimestep on process p up to the call of
\* MaxAll: the process is in the reduction with its own number of vectors.
FinalizeTimestep_MaxAll(p) ==
  /\ vis[p].at = "idle"
  /\ vis' = [vis EXCEPT ![p].at = "MaxAll",
                        ![p].l_nlifted = Cardinality(vis[p].lifted_vectors_),
                        ![p].g_nlifted = -1,
                        ![p].written = << >>]
  /\ UNCHANGED visUnchanged

\* Comm::MaxAll over the numbers the processes brought.
MaxAll(l) == CHOOSE g \in {l[p] : p \in Procs} : \A p \in Procs : l[p] <= g

\* The reduction returns on every process once every process is in it; a
\* process whose number differs from the maximum throws, the others go on
\* to write their lifted vectors.
FinalizeTimestep_Check ==
  /\ \A p \in Procs : vis[p].at = "MaxAll"
  /\ LET g_nlifted == MaxAll([p \in Procs |-> vis[p].l_nlifted])
     IN vis' = [p \in Procs |->
                  [vis[p] EXCEPT
                     !.g_nlifted = g_nlifted,
                     !.at = IF vis[p].l_nlifted # g_nlifted
                              THEN "raised" ELSE "WriteVector",
                     !.pending = IF vis[p].l_nlifted # g_nlifted
                                   THEN {} ELSE vis[p].lifted_vectors_]]
  /\ UNCHANGED visUnchanged

\* std::map iterates its keys in order: "pressure" before "saturation".
FirstVarName(names) ==
  IF "pressure" \in names THEN "pressure" ELSE "saturation"

\* Visualization::WriteVector of the next lifted vector, a collective write:
\* it returns once every process of the run is writing a vector.
FinalizeTimestep_WriteVector ==
  /\ \A p \in Procs : vis[p].at = "WriteVector" /\ vis[p].pending # {}
  /\ vis' = [p \in Procs |->
               LET name == FirstVarName(vis[p].pending)
               IN [vis[p] EXCEPT !.pending = @ \ {name},
                                 !.written = Append(@, name)]]
  /\ UNCHANGED visUnchanged

\* The end of FinalizeTimestep on process p: lifted_vectors_.clear() and
\* Visualization::FinalizeTimestep().
FinalizeTimestep_Clear(p) ==
  /\ vis[p].at = "WriteVector"
  /\ vis[p].pending = {}
  /\ vis' = [vis EXCEPT ![p].lifted_vectors_ = {}, ![p].at = "idle"]
  /\ UNCHANGED visUnchanged

NextVis ==
  \/ \E p \in Procs, d \in Subdomains, v \in VarNames : WriteVector(p, <<d, v>>)
  \/ \E p \in Procs : FinalizeTimestep_MaxAll(p)
  \/ FinalizeTimestep_Check
  \/ FinalizeTimestep_WriteVector
  \/ \E p \in Procs : FinalizeTimestep_Clear(p)

SpecVis == InitVis /\ [][NextVis]_vars

\* C40: when the numbers of lifted vectors of the processes differ, every
\* process stops with the error after the MaxAll reduction: no process has
\* gone on to the collective writes while another one has thrown.
C40_AllProcessesRaise ==
  (\E p \in Procs : vis[p].at = "raised") =>
    (\A p \in Procs : vis[p].at = "raised")

====
